---- MODULE Spec2Model ----
(***************************************************************************)
(* The client-side order-and-realtime synchronisation core of the          *)
(* storefront: the shared realtime socket (src/lib/realtime.ts), the       *)
(* order-chat thread state (use-order-chat-realtime hook and chat page)    *)
(* and the checkout page's place-order flow.  The checkout page's address  *)
(* form (onCreateAddress) is left out: no property below reads it.         *)
(*                                                                         *)
(* React state is modelled by one variable per useState cell.  An event    *)
(* handler, a promise continuation and the effects its state changes       *)
(* trigger are one atomic action: the event loop is single-threaded and    *)
(* effects run when the render that follows the handler commits.  Every    *)
(* await is a suspension point and splits a handler into several actions.  *)
(***************************************************************************)
EXTENDS Integers, Sequences, FiniteSets, TLC

\* ---------------------------------------------------------------- bounds
MaxSockets == 4      \* sockets ever created by io()
MaxMsgs == 3         \* chat messages the server ever creates
MaxFetches == 2      \* history fetches in flight at once
MaxOrderCalls == 2   \* createOrder requests a checkout view ever issues
MaxSubmits == 2      \* onPlaceOrder calls in flight at once
MaxReadAt == 3       \* lastReadAt stamps a chat:read event can carry
MaxNotifs == 3       \* notifications the backend ever creates
MaxStamp == 2        \* readAt stamps the backend ever issues
MaxAddCalls == 3     \* POST /cart/items requests ever sent
MaxCartLines == 2    \* lines the backend's cart ever holds
MaxNtEvents == 1     \* notification events queued on the socket
MaxRefreshes == 2    \* refreshCounts calls in flight at once
MaxCount == 1        \* largest count a badge fetch returns
MaxNav == 1          \* navigations the header lives through
MaxMounts == 1       \* times the header is mounted again
MaxCatReqs == 2      \* listProducts calls of the home catalog in flight at once
MaxSeq == 5          \* runs of the home catalog's category effect

\* ------------------------------------------------------------- constants
HistoryLimit == 50   \* listChatMessages(orderId, { limit: 50 })
PageLimit == 20      \* listNotifications({ limit: 20 })

NoToken == "none"
Tokens == {"t1", "t2"}
Consumers == {"chat", "notifications", "badges"}
Hooks == {"chat", "notifications"}
Users == {"u1", "u2"}
Surfaces == {"home", "detail", "wishlist", "products"}
Vendors == {"V1", "V2"}
NoProduct == [vendor |-> "", purchasable |-> FALSE]
Products == [vendor : Vendors, purchasable : BOOLEAN]
NoRead == [lastReadMessageId |-> 0, lastReadAt |-> 0]
NoOrder == ""
Threads == {"A", "B"}
NoError == "null"
NoVendor == ""
NoCurrency == ""
Currencies == {"USD", "MMK"}
Countries == {"US", "MM"}
NoAddr == 0
NoPickup == ""
NoRate == [available |-> FALSE, forCountry |-> "null"]
NoRequest == [country |-> "null"]
NoMessage == "null"

VARIABLES
    \* src/lib/realtime.ts
    sockets,          \* every Socket object io() has returned, in creation order
    sharedSocket,     \* index into sockets, 0 for null
    socketToken,
    \* session, as useAuthSession hands it to a page
    accessToken,
    logoutPending,    \* LogoutButton: the logout transition is running
    handle,           \* per consumer, the socket its effect holds (0 for none)
    \* chat page and useOrderChatRealtime
    activeOrderId,
    messages,
    messagesLoading,
    sending,
    chatError,
    srvMsgs,          \* the backend's message log, in creation order
    fetches,          \* loadMessages calls in flight
    sendReq,          \* the onSend call in flight, if any
    pushed,           \* the last message the socket delivered as chat:message
    reads,            \* the hook's reads state: userId -> read cursor
    \* notifications page and useNotificationsRealtime
    notifications,    \* the inbox, newest first: [id, readAt], readAt 0 for none
    ntLoading,
    ntWorking,
    ntError,
    ntReqs,           \* REST calls of the page in flight
    ntEvents,         \* notification events the socket has yet to deliver
    srvNotifs,        \* the backend's notifications, in creation order
    clock,            \* stamps the backend has issued so far
    \* add-to-cart surfaces
    surface,          \* the view the router shows
    notice,           \* the surface's notice / message state
    atcError,         \* the wishlist page's error state
    atcWorking,       \* the wishlist page's working state
    pickerProduct,    \* the product of the open variant picker, NoProduct if closed
    detailProduct,    \* the product the detail page shows
    atcReq,           \* the addCartItem call in flight, if any
    srvCart,          \* the backend's cart: [vendorId, lines]
    addCalls,         \* number of POST /cart/items requests sent
    \* the realtime hooks: useOrderChatRealtime, useNotificationsRealtime
    hooksMounted,     \* the hooks whose component is mounted
    hookOrderId,      \* the orderId argument of useOrderChatRealtime
    connected,        \* per hook, its connected state
    subscribed,       \* order ids chat:subscribe was emitted for on the shared
                      \* socket since its transport last came up
    \* HomeCatalogSection
    homeMounted,      \* the home page has rendered the section
    initialProducts,  \* the prop
    selectedCategoryId,
    homeProducts,     \* the products state
    homeLoading,      \* the loading state
    homeError,        \* the error state
    requestSeq,       \* requestSeqRef.current
    cache,            \* cacheRef / loadedCategoryKeysRef: category -> list, or NotLoaded
    catReqs,          \* listProducts calls in flight: [key, seq, alive]
    \* NavActionIcons
    counts,           \* the four count states, by name
    pathname,         \* usePathname(): the number of navigations so far
    navMounted,       \* the header is mounted
    navInstance,      \* which mount of the header is the current one
    bgReqs,           \* refreshCounts calls in flight
    bgLast,           \* the refreshCounts call settled last, and the counts before it
    \* checkout page
    loading,
    submitting,
    checkoutError,    \* [text, orderId]: the error banner and the order id it quotes
    checkoutMessage,
    cart,
    addresses,
    pickupLocations,
    shippingRate,     \* NoRate for null; forCountry is the country it was quoted for
    fulfillment,
    shippingAddrId,
    pickupLocId,
    mmkProvider,
    location,         \* where the browser was last sent
    loadReq,          \* the mount effect's load: "cart", "pickup" or "done"
    rateReq,          \* the shipping-rate lookup whose alive flag is still set
    submits,          \* onPlaceOrder calls in flight, each with its closure
    orderCalls,       \* number of createOrder requests sent
    payCalls,         \* payment-initiation requests sent, in order
    orders            \* orders the backend has created: [id, currency, paymentInitiated]

rtVars == <<sockets, sharedSocket, socketToken>>
chatVars == <<activeOrderId, messages, messagesLoading, sending, chatError,
              srvMsgs, fetches, sendReq, pushed>>
coVars == <<loading, submitting, checkoutError, checkoutMessage, cart, addresses,
            pickupLocations, shippingRate, fulfillment, shippingAddrId, pickupLocId,
            mmkProvider, location, loadReq, rateReq, submits, orderCalls,
            payCalls, orders>>
sessVars == <<logoutPending, handle>>
ntVars == <<notifications, ntLoading, ntWorking, ntError, ntReqs, ntEvents,
            srvNotifs, clock>>
atcVars == <<surface, notice, atcError, atcWorking, pickerProduct, detailProduct,
             atcReq, srvCart, addCalls>>
bgVars == <<counts, pathname, navMounted, navInstance, bgReqs, bgLast>>
hkVars == <<hooksMounted, hookOrderId, connected, subscribed>>
catVars == <<homeMounted, initialProducts, selectedCategoryId, homeProducts, homeLoading,
             homeError, requestSeq, cache, catReqs>>
extVars == <<sessVars, reads, ntVars, atcVars, bgVars, hkVars, catVars>>
vars == <<rtVars, accessToken, chatVars, coVars, extVars>>

\* ------------------------------------------------------------- sequences
RECURSIVE Reverse(_)
Reverse(s) == IF s = <<>> THEN <<>> ELSE Append(Reverse(Tail(s)), Head(s))

RemoveAt(s, i) == SubSeq(s, 1, i - 1) \o SubSeq(s, i + 1, Len(s))

Take(s, n) == SubSeq(s, 1, IF Len(s) < n THEN Len(s) ELSE n)

HasId(s, id) == \E i \in DOMAIN s : s[i].id = id

\* ------------------------------------------------------------------ Init
InitRealtime ==
    /\ sockets = <<>>
    /\ sharedSocket = 0
    /\ socketToken = NoToken

InitChat ==
    /\ activeOrderId = NoOrder
    /\ messages = <<>>
    /\ messagesLoading = FALSE
    /\ sending = FALSE
    /\ chatError = NoError
    /\ srvMsgs = <<>>
    /\ fetches = <<>>
    /\ sendReq = [phase |-> "idle"]
    /\ pushed = 0

EmptyCart == [vendorId |-> NoVendor, currency |-> NoCurrency, items |-> <<>>]

Err(text) == [text |-> text, orderId |-> 0]

\* CheckoutPage after its mount effects (part_009 138-150, 198-202): without a
\* token the login error is shown, with one the cart and address requests
\* are in flight.
InitCheckout ==
    /\ loading = (accessToken # NoToken)
    /\ submitting = FALSE
    /\ checkoutError = IF accessToken = NoToken
                       THEN Err("Please login to checkout.")
                       ELSE Err(NoError)
    /\ checkoutMessage = NoMessage
    /\ cart = EmptyCart
    /\ addresses = <<>>
    /\ pickupLocations = <<>>
    /\ shippingRate = NoRate
    /\ fulfillment = "SHIPPING"
    /\ shippingAddrId = NoAddr
    /\ pickupLocId = NoPickup
    /\ mmkProvider = "WAVE"
    /\ location = "checkout"
    /\ loadReq = IF accessToken = NoToken THEN "done" ELSE "cart"
    /\ rateReq = NoRequest
    /\ submits = <<>>
    /\ orderCalls = 0
    /\ payCalls = <<>>
    /\ orders = <<>>

InitReads == reads = [u \in Users |-> NoRead]

\* NotificationsPage after its mount effect (notifications page 105-117).
InitInbox ==
    /\ notifications = <<>>
    /\ ntLoading = (accessToken # NoToken)
    /\ ntWorking = FALSE
    /\ ntError = IF accessToken = NoToken
                 THEN "Please login to view notifications."
                 ELSE NoError
    /\ ntReqs = IF accessToken = NoToken
                THEN <<>>
                ELSE <<[kind |-> "list", phase |-> "request", id |-> 0,
                        items |-> <<>>, readAt |-> 0]>>
    /\ ntEvents = <<>>
    /\ srvNotifs = <<>>
    /\ clock = 0

\* The home catalog is shown and the cart is empty.
InitAddToCart ==
    /\ surface = "home"
    /\ notice = NoMessage
    /\ atcError = NoError
    /\ atcWorking = FALSE
    /\ pickerProduct = NoProduct
    /\ detailProduct = NoProduct
    /\ atcReq = [phase |-> "idle", surface |-> "", vendor |-> "", status |-> 0,
                 detail |-> <<>>]
    /\ srvCart = [vendorId |-> NoVendor, lines |-> 0]
    /\ addCalls = 0

InitSession ==
    /\ logoutPending = FALSE
    /\ handle = [c \in Consumers |-> 0]

\* No hook is mounted (hook 21-23; notifications hook 18-19).
InitHooks ==
    /\ hooksMounted = {}
    /\ hookOrderId = NoOrder
    /\ connected = [c \in Hooks |-> FALSE]
    /\ subscribed = {}

ALL_CATEGORY_ID == "all"

Categories == {"c1", "c2"}

NotLoaded == "not loaded"

\* A product of the backend's catalog.
Product(c, status) == [category |-> c, status |-> status]

\* What GET /products answers for a category key: products of that category
\* (of any, for the key "all"), active or not.
SrvProducts(key) ==
    IF key = ALL_CATEGORY_ID
    THEN {<<>>, <<Product("c1", "ACTIVE"), Product("c2", "ACTIVE")>>}
    ELSE {<<>>, <<Product(key, "ACTIVE")>>,
          <<Product(key, "DRAFT"), Product(key, "ACTIVE")>>}

\* The home page has not been rendered yet.
InitCatalog ==
    /\ homeMounted = FALSE
    /\ initialProducts = <<>>
    /\ selectedCategoryId = ALL_CATEGORY_ID
    /\ homeProducts = <<>>
    /\ homeLoading = FALSE
    /\ homeError = NoError
    /\ requestSeq = 0
    /\ cache = [k \in Categories \cup {ALL_CATEGORY_ID} |-> NotLoaded]
    /\ catReqs = <<>>

BadgeKeys == {"wishlistCount", "cartCount", "notificationCount", "chatUnreadCount"}

Pending == -1

ZeroCounts == [k \in BadgeKeys |-> 0]

\* A refreshCounts call past its token guard (NavActionIcons 105-111): the
\* four fetches are in flight; the call remembers the render it was made in.
NewRefresh(t, path, inst) == [token |-> t, pathname |-> path, instance |-> inst]

\* What is kept of a settled refreshCounts call: how it settled, whether React
\* applied its updates, the fetch that failed and what its counter showed.
Settled(kind, applied, failed, before) ==
    [kind |-> kind, applied |-> applied, failed |-> failed, before |-> before]

NoRefresh == Settled("none", FALSE, "none", 0)

\* NavActionIcons after its mount effect (NavActionIcons 91-94, 126-128).
InitBadges ==
    /\ counts = ZeroCounts
    /\ pathname = 0
    /\ navMounted = TRUE
    /\ navInstance = 0
    /\ bgReqs = IF accessToken = NoToken
                THEN <<>>
                ELSE <<NewRefresh(accessToken, 0, 0)>>
    /\ bgLast = NoRefresh

Init ==
    /\ InitRealtime
    /\ accessToken \in {NoToken, "t1"}
    /\ InitSession
    /\ InitChat
    /\ InitReads
    /\ InitInbox
    /\ InitAddToCart
    /\ InitBadges
    /\ InitCatalog
    /\ InitHooks
    /\ InitCheckout

\* =========================================================================
\* Realtime connection manager: src/lib/realtime.ts
\* =========================================================================
\* A socket.io Socket is "connecting" (active, no transport yet: autoConnect
\* and reconnection are on), "connected", or "closed" (disconnect() was
\* called on it: it holds no transport and never reconnects).
NewSocket(t) == [token |-> t, state |-> "connecting"]

SocketDisconnect(ss, i) == [ss EXCEPT ![i].state = "closed"]

OpenSockets == {i \in DOMAIN sockets : sockets[i].state # "closed"}

getRealtimeSocket_AlwaysNew(t) ==
    /\ Len(sockets) < MaxSockets
    /\ socketToken' = t
    /\ sockets' = Append(IF sharedSocket # 0
                         THEN SocketDisconnect(sockets, sharedSocket)
                         ELSE sockets,
                         NewSocket(t))
    /\ sharedSocket' = Len(sockets) + 1

getRealtimeSocket_NoClose(t) ==
    IF sharedSocket # 0 /\ socketToken = t
    THEN UNCHANGED rtVars
    ELSE /\ Len(sockets) < MaxSockets
         /\ socketToken' = t
         /\ sockets' = Append(sockets, NewSocket(t))
         /\ sharedSocket' = Len(sockets) + 1

getRealtimeSocket(t) ==
    IF sharedSocket # 0 /\ socketToken = t
    THEN UNCHANGED rtVars
    ELSE /\ Len(sockets) < MaxSockets
         /\ socketToken' = t
         /\ sockets' = Append(IF sharedSocket # 0
                              THEN SocketDisconnect(sockets, sharedSocket)
                              ELSE sockets,
                              NewSocket(t))
         /\ sharedSocket' = Len(sockets) + 1

disconnectRealtimeSocket ==
    IF sharedSocket = 0
    THEN UNCHANGED rtVars
    ELSE /\ sockets' = SocketDisconnect(sockets, sharedSocket)
         /\ sharedSocket' = 0
         /\ socketToken' = NoToken

\* The transport of an active socket comes up.
TransportUp(i) ==
    /\ sockets[i].state = "connecting"
    /\ sockets' = [sockets EXCEPT ![i].state = "connected"]
    /\ UNCHANGED <<sharedSocket, socketToken>>

\* The transport is lost; reconnection: true keeps the socket active.
TransportLost(i) ==
    /\ sockets[i].state = "connected"
    /\ sockets' = [sockets EXCEPT ![i].state = "connecting"]
    /\ UNCHANGED <<sharedSocket, socketToken>>

notRealtime == <<accessToken, chatVars, coVars, extVars>>

Acquire == \E t \in Tokens : getRealtimeSocket(t) /\ UNCHANGED notRealtime
Release == disconnectRealtimeSocket /\ UNCHANGED notRealtime
SocketUp == \E i \in DOMAIN sockets : TransportUp(i) /\ UNCHANGED notRealtime
SocketLost == \E i \in DOMAIN sockets : TransportLost(i) /\ UNCHANGED notRealtime

\* =========================================================================
\* Session: useAuthSession, setClientAuthSession / clearClientAuthSession,
\* LogoutButton, and the effects of the socket's consumers
\* =========================================================================
\* setClientAuthSession (part_001 29-33): the cookies are written and every
\* useAuthSession re-reads them.
setClientAuthSession(t) ==
    /\ accessToken' = t
    /\ UNCHANGED <<rtVars, logoutPending, handle>>

\* The effect of a consumer (chat hook 25-31, notifications hook 21-27,
\* NavActionIcons 130-134) run with a token: it holds the socket that
\* getRealtimeSocket returns.
ConsumerEffect(c) ==
    /\ accessToken # NoToken
    /\ handle[c] = 0
    /\ getRealtimeSocket(accessToken)
    /\ handle' = [handle EXCEPT ![c] = sharedSocket']
    /\ UNCHANGED <<accessToken, logoutPending>>

\* The effect's cleanup on unmount: socket.off for each handler, nothing else.
ConsumerCleanup(c) ==
    /\ handle[c] # 0
    /\ handle' = [handle EXCEPT ![c] = 0]
    /\ UNCHANGED <<rtVars, accessToken, logoutPending>>

\* onLogout up to its await (LogoutButton 18-21); the button is disabled
\* while the transition is pending.
onLogout ==
    /\ ~logoutPending
    /\ logoutPending' = TRUE
    /\ UNCHANGED <<rtVars, accessToken, handle>>

\* logout() settled either way (LogoutButton 22-27): clearClientAuthSession
\* empties the cookies and notifies; every useAuthSession reads no token, so
\* each consumer's effect runs its cleanup and returns at its token guard.
onLogoutSettled ==
    /\ logoutPending
    /\ logoutPending' = FALSE
    /\ accessToken' = NoToken
    /\ handle' = [c \in Consumers |-> 0]
    /\ UNCHANGED rtVars

notSession == <<chatVars, coVars, reads, ntVars, atcVars, bgVars, hkVars, catVars>>

Login ==
    /\ accessToken = NoToken
    /\ \E t \in Tokens : setClientAuthSession(t)
    /\ UNCHANGED notSession
ConsumerMount == \E c \in Consumers : ConsumerEffect(c) /\ UNCHANGED notSession
ConsumerUnmount == \E c \in Consumers : ConsumerCleanup(c) /\ UNCHANGED notSession
LogoutClick == onLogout /\ UNCHANGED notSession
LogoutSettled == onLogoutSettled /\ UNCHANGED notSession

NextSession ==
    \/ Login \/ ConsumerMount \/ ConsumerUnmount \/ LogoutClick \/ LogoutSettled
    \/ SocketUp \/ SocketLost

SpecSession == Init /\ [][NextSession]_vars

\* =========================================================================
\* Thread sync: useOrderChatRealtime (hook) and ChatPage
\* =========================================================================
\* Message ids and createdAt stamps are issued by the backend; the server
\* clock is strictly increasing, so the k-th message created has createdAt k.
SrvMessage(k, o) == [id |-> k, orderId |-> o, createdAt |-> k]

\* GET /chat/threads/:orderId/messages?limit=50: the most recent messages of
\* the thread, newest first.
SrvHistory(o) ==
    Take(Reverse(SelectSeq(srvMsgs, LAMBDA m : m.orderId = o)), HistoryLimit)

\* setMessages((prev) => prev.some(id) ? prev : [...prev, message])
AppendIfAbsent_NoDedup(prev, m) == Append(prev, m)

AppendIfAbsent(prev, m) == IF HasId(prev, m.id) THEN prev ELSE Append(prev, m)

\* loadMessages up to its first await: setMessagesLoading(true), request sent.
NewFetch(o) == [orderId |-> o, phase |-> "request", items |-> <<>>]

\* The effect on [accessToken, activeOrderId] (page.tsx 283-289), run when a
\* state change makes activeOrderId become o.  It owns messages, fetches and
\* messagesLoading of the step.
SetActiveOrderId(o) ==
    /\ activeOrderId' = o
    /\ IF o = activeOrderId
       THEN UNCHANGED <<messages, fetches, messagesLoading>>
       ELSE IF accessToken = NoToken \/ o = NoOrder
            THEN /\ messages' = <<>>
                 /\ UNCHANGED <<fetches, messagesLoading>>
            ELSE /\ Len(fetches) < MaxFetches
                 /\ fetches' = Append(fetches, NewFetch(o))
                 /\ messagesLoading' = TRUE
                 /\ UNCHANGED messages

\* onSelectThread(orderId)
onSelectThread(o) ==
    /\ SetActiveOrderId(o)
    /\ UNCHANGED <<sending, chatError, srvMsgs, sendReq>>

\* The backend answers a history request with the thread as it is now.
SrvListMessages(f) ==
    /\ fetches[f].phase = "request"
    /\ fetches' = [fetches EXCEPT ![f].phase = "response",
                                  ![f].items = SrvHistory(fetches[f].orderId)]
    /\ UNCHANGED <<activeOrderId, messages, messagesLoading, sending, chatError,
                   srvMsgs, sendReq>>

\* loadMessages after listChatMessages resolves (page.tsx 202-208): the
\* reversed page replaces the message state; a non-empty page goes on to
\* markChatRead, an empty one finishes.
loadMessagesResolved(f) ==
    /\ fetches[f].phase = "response"
    /\ LET ordered == Reverse(fetches[f].items) IN
       /\ messages' = ordered
       /\ IF ordered # <<>>
          THEN /\ fetches' = [fetches EXCEPT ![f].phase = "markRead"]
               /\ UNCHANGED <<messagesLoading, chatError>>
          ELSE /\ fetches' = RemoveAt(fetches, f)
               /\ chatError' = NoError
               /\ messagesLoading' = FALSE
    /\ UNCHANGED <<activeOrderId, sending, srvMsgs, sendReq>>

\* markChatRead resolves (page.tsx 209, 214).
loadMessagesMarked(f) ==
    /\ fetches[f].phase = "markRead"
    /\ fetches' = RemoveAt(fetches, f)
    /\ chatError' = NoError
    /\ messagesLoading' = FALSE
    /\ UNCHANGED <<activeOrderId, messages, sending, srvMsgs, sendReq>>

\* listChatMessages or markChatRead rejects (page.tsx 210-214).
loadMessagesFailed(f) ==
    /\ fetches[f].phase \in {"request", "response", "markRead"}
    /\ fetches' = RemoveAt(fetches, f)
    /\ chatError' = "Failed to load messages."
    /\ messages' = <<>>
    /\ messagesLoading' = FALSE
    /\ UNCHANGED <<activeOrderId, sending, srvMsgs, sendReq>>

\* The hook's handlers are registered while it has a token and an order id
\* (hook 26-29, 68-71).
HandlersRegistered == accessToken # NoToken /\ activeOrderId # NoOrder

\* handleMessage (hook 38-48)
handleMessage(payload) ==
    /\ HandlersRegistered
    /\ messages' = IF payload.orderId # activeOrderId
                   THEN messages
                   ELSE AppendIfAbsent(messages, payload.message)
    /\ UNCHANGED <<activeOrderId, messagesLoading, sending, chatError, srvMsgs,
                   fetches, sendReq>>

\* The other participant posts a message to a thread.
SrvOtherMessage(o) ==
    /\ Len(srvMsgs) < MaxMsgs
    /\ srvMsgs' = Append(srvMsgs, SrvMessage(Len(srvMsgs) + 1, o))
    /\ UNCHANGED <<activeOrderId, messages, messagesLoading, sending, chatError,
                   fetches, sendReq>>

\* onSend up to its await (page.tsx 305-315); the send button is disabled
\* while sending (page.tsx 521).
onSend ==
    /\ ~sending
    /\ accessToken # NoToken
    /\ activeOrderId # NoOrder
    /\ sending' = TRUE
    /\ sendReq' = [phase |-> "post", orderId |-> activeOrderId]
    /\ UNCHANGED <<activeOrderId, messages, messagesLoading, chatError, srvMsgs, fetches>>

\* POST /chat/threads/:orderId/messages creates the message.
SrvSendMessage ==
    /\ sendReq.phase = "post"
    /\ Len(srvMsgs) < MaxMsgs
    /\ LET m == SrvMessage(Len(srvMsgs) + 1, sendReq.orderId) IN
       /\ srvMsgs' = Append(srvMsgs, m)
       /\ sendReq' = [phase |-> "posted", orderId |-> sendReq.orderId,
                      message |-> m]
    /\ UNCHANGED <<activeOrderId, messages, messagesLoading, sending, chatError, fetches>>

\* onSend after sendChatMessage resolves (page.tsx 316-322): the confirmed
\* message is appended unless present, then loadThreads is awaited.
onSendResolved ==
    /\ sendReq.phase = "posted"
    /\ messages' = AppendIfAbsent(messages, sendReq.message)
    /\ chatError' = NoError
    /\ sendReq' = [phase |-> "threads", orderId |-> sendReq.orderId]
    /\ UNCHANGED <<activeOrderId, messagesLoading, sending, srvMsgs, fetches>>

\* loadThreads(accessToken, activeOrderId) resolves (page.tsx 172-192): with
\* a preferred order id both branches make it the active order; then
\* finally setSending(false).
onSendThreadsLoaded ==
    /\ sendReq.phase = "threads"
    /\ SetActiveOrderId(sendReq.orderId)
    /\ sending' = FALSE
    /\ sendReq' = [phase |-> "idle"]
    /\ UNCHANGED <<chatError, srvMsgs>>

\* sendChatMessage or loadThreads rejects (page.tsx 323-327).
onSendFailed ==
    /\ sendReq.phase \in {"post", "posted", "threads"}
    /\ chatError' = "Failed to send message."
    /\ sending' = FALSE
    /\ sendReq' = [phase |-> "idle"]
    /\ UNCHANGED <<activeOrderId, messages, messagesLoading, srvMsgs, fetches>>

notChat == <<rtVars, accessToken, coVars, extVars>>
notPush == <<notChat, pushed>>

SelectThread == \E o \in Threads : onSelectThread(o) /\ UNCHANGED notPush
HistoryServed == \E f \in DOMAIN fetches : SrvListMessages(f) /\ UNCHANGED notPush
HistoryResolved == \E f \in DOMAIN fetches : loadMessagesResolved(f) /\ UNCHANGED notPush
HistoryMarked == \E f \in DOMAIN fetches : loadMessagesMarked(f) /\ UNCHANGED notPush
HistoryFailed == \E f \in DOMAIN fetches : loadMessagesFailed(f) /\ UNCHANGED notPush
\* The server emits chat:message once per message, in creation order, over
\* the one socket; an emit made while the client is not subscribed is lost.
PushMessage ==
    \E k \in (pushed + 1)..Len(srvMsgs) :
        /\ handleMessage([orderId |-> srvMsgs[k].orderId,
                          message |-> srvMsgs[k]])
        /\ pushed' = k
        /\ UNCHANGED notChat
OtherMessage == \E o \in Threads : SrvOtherMessage(o) /\ UNCHANGED notPush
Send == onSend /\ UNCHANGED notPush
SendServed == SrvSendMessage /\ UNCHANGED notPush
SendResolved == onSendResolved /\ UNCHANGED notPush
SendThreadsLoaded == onSendThreadsLoaded /\ UNCHANGED notPush
SendFailed == onSendFailed /\ UNCHANGED notPush

\* handleRead (hook 49-66): the named participant's cursor is replaced by
\* the event's.
handleRead(payload) ==
    /\ HandlersRegistered
    /\ reads' = IF payload.orderId # activeOrderId
                THEN reads
                ELSE [reads EXCEPT ![payload.userId] =
                         [lastReadMessageId |-> payload.lastReadMessageId,
                          lastReadAt |-> payload.lastReadAt]]

\* A chat:read event arrives.
ReadEvent ==
    \E o \in Threads, u \in Users, k \in 1..MaxMsgs, at \in 1..MaxReadAt :
        /\ handleRead([orderId |-> o, userId |-> u,
                       lastReadMessageId |-> k, lastReadAt |-> at])
        /\ UNCHANGED <<rtVars, accessToken, chatVars, coVars, sessVars, ntVars, atcVars,
                     bgVars, hkVars, catVars>>

NextReads == SelectThread \/ HistoryFailed \/ ReadEvent

\* The open thread with its read events.
SpecReads == Init /\ [][NextReads]_vars

NextChat ==
    \/ SelectThread \/ HistoryServed \/ HistoryResolved \/ HistoryMarked
    \/ HistoryFailed \/ PushMessage \/ OtherMessage
    \/ Send \/ SendServed \/ SendResolved \/ SendThreadsLoaded \/ SendFailed

SpecChat == Init /\ [][NextChat]_vars

\* =========================================================================
\* Checkout: CheckoutPage (part_009)
\* =========================================================================
\* What the backend may answer to the view's load.
SrvCarts ==
    {EmptyCart} \cup
    {[vendorId |-> "V1", currency |-> c, items |-> <<[id |-> "i1", currency |-> c]>>] :
        c \in Currencies}

SrvAddressLists ==
    { <<>>,
      <<[id |-> 1, country |-> "US"], [id |-> 2, country |-> "MM"]>> }

SrvPickupLists == {<<>>, <<"p1">>}

\* const currency = cart.currency ?? cart.items[0]?.variant.currency ?? 'USD'
Currency ==
    IF cart.currency # NoCurrency THEN cart.currency
    ELSE IF cart.items # <<>> THEN cart.items[1].currency
    ELSE "USD"

FirstAddrId(as) == IF as = <<>> THEN NoAddr ELSE as[1].id

FirstPickupId(ps) == IF ps = <<>> THEN NoPickup ELSE ps[1]

HasAddr(as, sa) == \E i \in DOMAIN as : as[i].id = sa

\* addresses.find((item) => item.id === shippingAddrId)
FindAddr(as, sa) ==
    as[CHOOSE i \in DOMAIN as : as[i].id = sa /\ \A j \in 1..(i - 1) : as[j].id # sa]

\* The shipping-rate effect (part_009 198-229) run for the dependency values
\* of the render being committed.  Its cleanup clears the alive flag of the
\* lookup in flight; a lookup whose flag is cleared never writes state
\* (212, 221), so it leaves rateReq.  rate is shippingRate as the handler of
\* the step left it.
RateEffect(c, f, as, sa, rate) ==
    IF accessToken = NoToken \/ c.vendorId = NoVendor \/ f # "SHIPPING" \/ ~HasAddr(as, sa)
    THEN /\ rateReq' = NoRequest
         /\ shippingRate' = NoRate
    ELSE /\ rateReq' = [country |-> FindAddr(as, sa).country]
         /\ shippingRate' = rate

\* The effect runs only when one of its dependencies changed; setAddresses
\* always installs a new array (asChanged).
RateEffectIfChanged(c, f, as, sa, asChanged, rate) ==
    IF asChanged \/ <<c.vendorId, f, sa>> # <<cart.vendorId, fulfillment, shippingAddrId>>
    THEN RateEffect(c, f, as, sa, rate)
    ELSE /\ rateReq' = rateReq
         /\ shippingRate' = rate

\* clearCheckoutCartState (part_009 132-136) and the effect it triggers.
clearCheckoutCartState ==
    /\ cart' = EmptyCart
    /\ pickupLocId' = NoPickup
    /\ RateEffectIfChanged(EmptyCart, fulfillment, addresses, shippingAddrId, FALSE, NoRate)

\* --- the mount effect's load (part_009 151-191)
loadCheckoutResolved(cartRes, addressRes) ==
    /\ loadReq = "cart"
    /\ cart' = cartRes
    /\ addresses' = addressRes
    /\ shippingAddrId' = FirstAddrId(addressRes)
    /\ RateEffectIfChanged(cartRes, fulfillment, addressRes, FirstAddrId(addressRes),
                           TRUE, shippingRate)
    /\ IF cartRes.vendorId # NoVendor
       THEN /\ loadReq' = "pickup"
            /\ UNCHANGED <<loading, checkoutError>>
       ELSE /\ loadReq' = "done"
            /\ checkoutError' = Err(NoError)
            /\ loading' = FALSE
    /\ UNCHANGED <<submitting, checkoutMessage, pickupLocations, fulfillment, pickupLocId,
                   mmkProvider, location, submits, orderCalls, payCalls, orders>>

loadPickupResolved(pickupRes) ==
    /\ loadReq = "pickup"
    /\ loadReq' = "done"
    /\ pickupLocations' = pickupRes
    /\ pickupLocId' = FirstPickupId(pickupRes)
    /\ checkoutError' = Err(NoError)
    /\ loading' = FALSE
    /\ UNCHANGED <<submitting, checkoutMessage, cart, addresses, shippingRate, fulfillment,
                   shippingAddrId, mmkProvider, location, rateReq, submits,
                   orderCalls, payCalls, orders>>

loadCheckoutFailed ==
    /\ loadReq \in {"cart", "pickup"}
    /\ loadReq' = "done"
    /\ checkoutError' = Err("Failed to load checkout data.")
    /\ loading' = FALSE
    /\ UNCHANGED <<submitting, checkoutMessage, cart, addresses, pickupLocations,
                   shippingRate, fulfillment, shippingAddrId, pickupLocId, mmkProvider,
                   location, rateReq, submits, orderCalls, payCalls, orders>>

\* --- the shipping-rate lookup resolves (part_009 211-224)
listShippingRatesResolved(available) ==
    /\ rateReq # NoRequest
    /\ shippingRate' = [available |-> available, forCountry |-> rateReq.country]
    /\ rateReq' = NoRequest
    /\ UNCHANGED <<loading, submitting, checkoutError, checkoutMessage, cart, addresses,
                   pickupLocations, fulfillment, shippingAddrId, pickupLocId, mmkProvider,
                   location, loadReq, submits, orderCalls, payCalls, orders>>

listShippingRatesFailed ==
    /\ rateReq # NoRequest
    /\ shippingRate' = NoRate
    /\ rateReq' = NoRequest
    /\ UNCHANGED <<loading, submitting, checkoutError, checkoutMessage, cart, addresses,
                   pickupLocations, fulfillment, shippingAddrId, pickupLocId, mmkProvider,
                   location, loadReq, submits, orderCalls, payCalls, orders>>

\* --- the selection controls (part_009 390, 401, 412, 435, 544, 555)
setFulfillment(f) ==
    /\ fulfillment' = f
    /\ RateEffectIfChanged(cart, f, addresses, shippingAddrId, FALSE, shippingRate)
    /\ UNCHANGED <<loading, submitting, checkoutError, checkoutMessage, cart, addresses,
                   pickupLocations, shippingAddrId, pickupLocId, mmkProvider, location,
                   loadReq, submits, orderCalls, payCalls, orders>>

\* The address select is rendered for SHIPPING; its options are "" and the
\* saved addresses.
setShippingAddrId(a) ==
    /\ fulfillment = "SHIPPING"
    /\ a = NoAddr \/ HasAddr(addresses, a)
    /\ shippingAddrId' = a
    /\ RateEffectIfChanged(cart, fulfillment, addresses, a, FALSE, shippingRate)
    /\ UNCHANGED <<loading, submitting, checkoutError, checkoutMessage, cart, addresses,
                   pickupLocations, fulfillment, pickupLocId, mmkProvider, location,
                   loadReq, submits, orderCalls, payCalls, orders>>

setPickupLocId(p) ==
    /\ fulfillment = "PICKUP"
    /\ p = NoPickup \/ \E i \in DOMAIN pickupLocations : pickupLocations[i] = p
    /\ pickupLocId' = p
    /\ UNCHANGED <<loading, submitting, checkoutError, checkoutMessage, cart, addresses,
                   pickupLocations, shippingRate, fulfillment, shippingAddrId, mmkProvider,
                   location, loadReq, rateReq, submits, orderCalls, payCalls,
                   orders>>

\* The provider buttons are rendered when the cart's currency is MMK.
setMmkProvider(p) ==
    /\ Currency = "MMK"
    /\ mmkProvider' = p
    /\ UNCHANGED <<loading, submitting, checkoutError, checkoutMessage, cart, addresses,
                   pickupLocations, shippingRate, fulfillment, shippingAddrId, pickupLocId,
                   location, loadReq, rateReq, submits, orderCalls, payCalls,
                   orders>>

\* --- onPlaceOrder (part_009 263-334)
EmptyCartReason == "Cart is empty."
NoAddressReason == "Please select shipping address."
NoRateReason == "Shipping unavailable for selected country."
NoPickupReason == "Please select pickup location."
PaymentFailedText ==
    "Order was created but payment step failed. Please open Orders and retry payment."
PlaceOrderFallback == "Failed to place order."
ApiDetail == "API detail"

\* The precondition checks of lines 267-284, in the order of the code; the
\* reason set by the first failing one, NoError when all pass.
\* !shippingRate?.available is true for a null rate.
PlaceOrderReject_AddressFirst ==
    IF fulfillment = "SHIPPING" /\ shippingAddrId = NoAddr THEN NoAddressReason
    ELSE IF fulfillment = "SHIPPING" /\ ~shippingRate.available THEN NoRateReason
    ELSE IF fulfillment # "SHIPPING" /\ pickupLocId = NoPickup THEN NoPickupReason
    ELSE IF cart.items = <<>> THEN EmptyCartReason
    ELSE NoError

PlaceOrderReject ==
    IF cart.items = <<>> THEN EmptyCartReason
    ELSE IF fulfillment = "SHIPPING" /\ shippingAddrId = NoAddr THEN NoAddressReason
    ELSE IF fulfillment = "SHIPPING" /\ ~shippingRate.available THEN NoRateReason
    ELSE IF fulfillment # "SHIPPING" /\ pickupLocId = NoPickup THEN NoPickupReason
    ELSE NoError

\* The handler up to its first await.  The closure of the call keeps the
\* mmkProvider of the render it was created in.
onPlaceOrder_SubmittingFirst ==
    IF accessToken = NoToken
    THEN UNCHANGED coVars
    ELSE IF PlaceOrderReject # NoError
    THEN /\ checkoutError' = Err(PlaceOrderReject)
         /\ submitting' = TRUE
         /\ UNCHANGED <<loading, checkoutMessage, cart, addresses,
                        pickupLocations, shippingRate, fulfillment, shippingAddrId,
                        pickupLocId, mmkProvider, location, loadReq, rateReq, submits, orderCalls, payCalls, orders>>
    ELSE /\ orderCalls < MaxOrderCalls
         /\ Len(submits) < MaxSubmits
         /\ submitting' = TRUE
         /\ checkoutError' = Err(NoError)
         /\ checkoutMessage' = NoMessage
         /\ orderCalls' = orderCalls + 1
         /\ submits' = Append(submits, [phase |-> "createOrder",
                                        mmkProvider |-> mmkProvider,
                                        createdOrderId |-> 0,
                                        provider |-> "null"])
         /\ UNCHANGED <<loading, cart, addresses, pickupLocations, shippingRate,
                        fulfillment, shippingAddrId, pickupLocId, mmkProvider, location,
                        loadReq, rateReq, payCalls, orders>>

onPlaceOrder ==
    IF accessToken = NoToken
    THEN UNCHANGED coVars
    ELSE IF PlaceOrderReject # NoError
    THEN /\ checkoutError' = Err(PlaceOrderReject)
         /\ UNCHANGED <<loading, submitting, checkoutMessage, cart, addresses,
                        pickupLocations, shippingRate, fulfillment, shippingAddrId,
                        pickupLocId, mmkProvider, location, loadReq, rateReq, submits, orderCalls, payCalls, orders>>
    ELSE /\ orderCalls < MaxOrderCalls
         /\ Len(submits) < MaxSubmits
         /\ submitting' = TRUE
         /\ checkoutError' = Err(NoError)
         /\ checkoutMessage' = NoMessage
         /\ orderCalls' = orderCalls + 1
         /\ submits' = Append(submits, [phase |-> "createOrder",
                                        mmkProvider |-> mmkProvider,
                                        createdOrderId |-> 0,
                                        provider |-> "null"])
         /\ UNCHANGED <<loading, cart, addresses, pickupLocations, shippingRate,
                        fulfillment, shippingAddrId, pickupLocId, mmkProvider, location,
                        loadReq, rateReq, payCalls, orders>>

\* The payment endpoint called for a created order (part_009 301-315):
\* Stripe for USD, else the provider the closure holds.
PaymentProvider_CartCurrency(orderCurrency, closureProvider) ==
    IF Currency = "USD" THEN "STRIPE" ELSE closureProvider

PaymentProvider(orderCurrency, closureProvider) ==
    IF orderCurrency = "USD" THEN "STRIPE" ELSE closureProvider

\* createOrder resolves with { id, currency }: createdOrderId is set and the
\* payment request is sent (part_009 299-314).
createOrderResolved(s, orderCurrency) ==
    /\ submits[s].phase = "createOrder"
    /\ LET order == [id |-> Len(orders) + 1, currency |-> orderCurrency,
                     paymentInitiated |-> FALSE]
           provider == PaymentProvider(orderCurrency, submits[s].mmkProvider)
       IN /\ orders' = Append(orders, order)
          /\ payCalls' = Append(payCalls, [provider |-> provider, orderId |-> order.id])
          /\ submits' = [submits EXCEPT ![s].phase = "payment",
                                        ![s].createdOrderId = order.id,
                                        ![s].provider = provider]
    /\ UNCHANGED <<loading, submitting, checkoutError, checkoutMessage, cart, addresses,
                   pickupLocations, shippingRate, fulfillment, shippingAddrId, pickupLocId,
                   mmkProvider, location, loadReq, rateReq, orderCalls>>

\* createOrder rejects: createdOrderId is null in the catch (part_009 328-333).
\* getReadableApiMessage gives the API's detail or the fallback.
createOrderFailed_Clearing(s, text) ==
    /\ submits[s].phase = "createOrder"
    /\ clearCheckoutCartState
    /\ checkoutError' = Err(text)
    /\ submitting' = FALSE
    /\ submits' = RemoveAt(submits, s)
    /\ UNCHANGED <<loading, checkoutMessage, addresses, pickupLocations, fulfillment,
                   shippingAddrId, mmkProvider, location, loadReq, orderCalls,
                   payCalls, orders>>

createOrderFailed(s, text) ==
    /\ submits[s].phase = "createOrder"
    /\ checkoutError' = Err(text)
    /\ submitting' = FALSE
    /\ submits' = RemoveAt(submits, s)
    /\ UNCHANGED <<loading, checkoutMessage, cart, addresses, pickupLocations,
                   shippingRate, fulfillment, shippingAddrId, pickupLocId, mmkProvider,
                   location, loadReq, rateReq, orderCalls, payCalls, orders>>

\* The payment call resolves (part_009 302-320, 331-333).  A Stripe answer
\* with a url hands the browser over and returns before the cart is cleared.
paymentResolved(s, hasUrl) ==
    /\ submits[s].phase = "payment"
    /\ IF submits[s].provider = "STRIPE"
       THEN IF hasUrl
            THEN /\ location' = "stripe"
                 /\ UNCHANGED <<cart, pickupLocId, shippingRate, rateReq, checkoutMessage>>
            ELSE /\ clearCheckoutCartState
                 /\ checkoutMessage' = "Order created. Stripe checkout session created."
                 /\ UNCHANGED location
       ELSE /\ clearCheckoutCartState
            /\ checkoutMessage' = "Order paid successfully."
            /\ location' = "orders"
    /\ orders' = [orders EXCEPT ![submits[s].createdOrderId].paymentInitiated = TRUE]
    /\ submitting' = FALSE
    /\ submits' = RemoveAt(submits, s)
    /\ UNCHANGED <<loading, checkoutError, addresses, pickupLocations, fulfillment,
                   shippingAddrId, mmkProvider, loadReq, orderCalls, payCalls>>

\* The payment call rejects with createdOrderId set (part_009 321-327, 331-333).
paymentFailed_Generic(s) ==
    /\ submits[s].phase = "payment"
    /\ checkoutError' = Err(PlaceOrderFallback)
    /\ submitting' = FALSE
    /\ submits' = RemoveAt(submits, s)
    /\ UNCHANGED <<loading, checkoutMessage, cart, addresses, pickupLocations,
                   shippingRate, fulfillment, shippingAddrId, pickupLocId, mmkProvider,
                   location, loadReq, rateReq, orderCalls, payCalls, orders>>

paymentFailed(s) ==
    /\ submits[s].phase = "payment"
    /\ clearCheckoutCartState
    /\ checkoutError' = [text |-> PaymentFailedText, orderId |-> submits[s].createdOrderId]
    /\ submitting' = FALSE
    /\ submits' = RemoveAt(submits, s)
    /\ UNCHANGED <<loading, checkoutMessage, addresses, pickupLocations, fulfillment,
                   shippingAddrId, mmkProvider, location, loadReq, orderCalls,
                   payCalls, orders>>

\* disabled={loading || submitting || cart.items.length === 0} (part_009 568)
PlaceOrderDisabled == loading \/ submitting \/ cart.items = <<>>

notCheckout == <<rtVars, accessToken, chatVars, extVars>>

LoadResolved ==
    \E c \in SrvCarts, as \in SrvAddressLists :
        loadCheckoutResolved(c, as) /\ UNCHANGED notCheckout
PickupResolved == \E ps \in SrvPickupLists : loadPickupResolved(ps) /\ UNCHANGED notCheckout
LoadFailed == loadCheckoutFailed /\ UNCHANGED notCheckout
RateResolved == \E av \in BOOLEAN : listShippingRatesResolved(av) /\ UNCHANGED notCheckout
RateFailed == listShippingRatesFailed /\ UNCHANGED notCheckout
ChooseFulfillment ==
    \E f \in {"SHIPPING", "PICKUP"} : setFulfillment(f) /\ UNCHANGED notCheckout
ChooseAddress == \E a \in {NoAddr, 1, 2} : setShippingAddrId(a) /\ UNCHANGED notCheckout
ChoosePickup == \E p \in {NoPickup, "p1"} : setPickupLocId(p) /\ UNCHANGED notCheckout
ChooseProvider == \E p \in {"WAVE", "KBZPAY"} : setMmkProvider(p) /\ UNCHANGED notCheckout
\* A click on "Place order & pay".
PlaceOrderClick == ~PlaceOrderDisabled /\ onPlaceOrder /\ UNCHANGED notCheckout
\* submit() called whatever the button shows.
PlaceOrderCall == onPlaceOrder /\ UNCHANGED notCheckout
OrderCreated ==
    \E s \in DOMAIN submits, c \in Currencies :
        createOrderResolved(s, c) /\ UNCHANGED notCheckout
OrderFailed ==
    \E s \in DOMAIN submits, t \in {PlaceOrderFallback, ApiDetail} :
        createOrderFailed(s, t) /\ UNCHANGED notCheckout
PaymentResolved ==
    \E s \in DOMAIN submits, u \in BOOLEAN :
        paymentResolved(s, u) /\ UNCHANGED notCheckout
PaymentFailed == \E s \in DOMAIN submits : paymentFailed(s) /\ UNCHANGED notCheckout

CheckoutEvents ==
    \/ LoadResolved \/ PickupResolved \/ LoadFailed \/ RateResolved \/ RateFailed
    \/ ChooseFulfillment \/ ChooseAddress \/ ChoosePickup \/ ChooseProvider
    \/ OrderCreated \/ OrderFailed \/ PaymentResolved \/ PaymentFailed

NextCheckout == CheckoutEvents \/ PlaceOrderClick

NextSubmit == CheckoutEvents \/ PlaceOrderCall

\* The checkout view driven through its controls.
SpecCheckout == Init /\ [][NextCheckout]_vars

\* The checkout view with submit() callable in every state.
SpecSubmit == Init /\ [][NextSubmit]_vars

\* =========================================================================
\* Add to cart: HomeCatalogSection, ProductDetailPage, WishlistPage and
\* ProductsPage, each with its own inline handlers, and the cart endpoint
\* =========================================================================
\* Texts are sequences of characters.
Digit(d) == <<"0", "1", "2", "3", "4", "5", "6", "7", "8", "9">>[d + 1]

\* `${res.status}` of a three-digit status
Digits(n) == <<Digit(n \div 100), Digit((n \div 10) % 10), Digit(n % 10)>>

ApiError == <<"A", "P", "I", " ", "e", "r", "r", "o", "r", " ">>

\* The message texts of the backend's error payloads: none, one without
\* digits, one that quotes a product code.
Details ==
    {<<>>,
     <<"b", "u", "s", "y">>,
     <<"S", "K", "U", " ", "1", "4", "0", "9", "0">>}

\* apiFetch (realtime.ts 165-181): `API error ${status}: ${detail}`, or
\* `API error ${status}` without a detail.
ApiErrorMessage(status, detail) ==
    IF detail # <<>>
    THEN ApiError \o Digits(status) \o <<":", " ">> \o detail
    ELSE ApiError \o Digits(status)

\* The message of the Error the catch block sees; without an answer it is
\* the one fetch rejects with.
ErrorMessage(status, detail) ==
    IF status = 0
    THEN <<"F", "a", "i", "l", "e", "d", " ", "t", "o", " ", "f", "e", "t", "c", "h">>
    ELSE ApiErrorMessage(status, detail)

\* String.prototype.includes
Includes(text, part) ==
    \E i \in 1..(Len(text) - Len(part) + 1) :
        SubSeq(text, i, i + Len(part) - 1) = part

\* POST /cart/items as the specification describes the backend: a variant of
\* another vendor than the cart's is refused with status 409 and the cart is
\* left as it is.
SrvAddCartItem ==
    /\ atcReq.phase = "request"
    /\ IF srvCart.vendorId \notin {NoVendor, atcReq.vendor}
       THEN /\ \E detail \in Details :
                   atcReq' = [atcReq EXCEPT !.phase = "rejected", !.status = 409,
                                            !.detail = detail]
            /\ UNCHANGED srvCart
       ELSE /\ srvCart.lines < MaxCartLines
            /\ atcReq' = [atcReq EXCEPT !.phase = "resolved"]
            /\ srvCart' = [vendorId |-> atcReq.vendor, lines |-> srvCart.lines + 1]
    /\ UNCHANGED <<surface, notice, atcError, atcWorking, pickerProduct,
                   detailProduct, addCalls>>

\* The request fails for another reason: the backend refuses it (400), has
\* a server error (500), or there is no answer at all (0, fetch rejects).
SrvAddCartItemFails ==
    /\ atcReq.phase = "request"
    /\ \E status \in {0, 400, 500}, detail \in Details :
           /\ status = 0 => detail = <<>>
           /\ atcReq' = [atcReq EXCEPT !.phase = "rejected", !.status = status,
                                       !.detail = detail]
    /\ UNCHANGED <<surface, notice, atcError, atcWorking, pickerProduct,
                   detailProduct, srvCart, addCalls>>

\* The cart page's onRemove (cart page 113-128) on the last line of the cart.
onRemove ==
    /\ surface = "cart"
    /\ accessToken # NoToken
    /\ srvCart.lines > 0
    /\ srvCart' = IF srvCart.lines = 1
                  THEN [vendorId |-> NoVendor, lines |-> 0]
                  ELSE [srvCart EXCEPT !.lines = srvCart.lines - 1]
    /\ UNCHANGED <<surface, notice, atcError, atcWorking, pickerProduct,
                   detailProduct, atcReq, addCalls>>

\* err instanceof Error && err.message.includes('409'), on the message
\* "API error <status>" that apiFetch builds; fetch's own errors carry no status.
\* err.message.includes('409')
Includes409(message) == Includes(message, Digits(409))

ConflictMessage(s) ==
    CASE s = "home" ->
            "Single-vendor cart only. Clear cart before adding another vendor product."
      [] s = "detail" -> "Single-vendor cart only. Remove current cart items first."
      [] OTHER -> "Single-vendor cart only. Clear cart first."

FailureMessage(s) ==
    CASE s = "home" -> "Failed to add product to cart."
      [] s = "detail" -> "Failed to add to cart."
      [] s = "wishlist" -> "Failed to add item to cart."
      [] OTHER -> "Failed to add item"

AddedMessage(s) ==
    CASE s = "detail" -> "Added to cart."
      [] s = "products" -> "Added <title> to cart"
      [] OTHER -> "Added <title> to cart."

LoginMessage(s) ==
    CASE s = "home" -> "Please login first to add products to cart."
      [] s = "detail" -> "Please login before adding to cart."
      [] s = "wishlist" -> "Please login first."
      [] OTHER -> "Please login as customer/vendor first."

NotPurchasableMessage(s) ==
    IF s = "home" THEN "This product is not purchasable right now."
    ELSE "No purchasable variant."

\* The surface is entered: its component mounts with fresh state.
Mount(s, p) ==
    /\ atcReq.phase = "idle"
    /\ surface' = s
    /\ notice' = NoMessage
    /\ atcError' = NoError
    /\ atcWorking' = FALSE
    /\ pickerProduct' = NoProduct
    /\ detailProduct' = IF s = "detail" THEN p ELSE NoProduct
    /\ UNCHANGED <<atcReq, srvCart, addCalls>>

\* onAddToCart(product) of the home catalog (HomeCatalogSection 257-270), the
\* wishlist (wishlist page 97-109) and the product list (part_012 166-177):
\* the home catalog tests the variants first, the two others the token.
onAddToCart(p) ==
    /\ surface \in {"home", "wishlist", "products"}
    /\ atcReq.phase = "idle"
    /\ LET noToken == accessToken = NoToken
           reject == IF surface = "home"
                     THEN IF ~p.purchasable THEN "variants"
                          ELSE IF noToken THEN "login" ELSE "none"
                     ELSE IF noToken THEN "login"
                          ELSE IF ~p.purchasable THEN "variants" ELSE "none"
       IN CASE reject = "variants" ->
                 /\ notice' = NotPurchasableMessage(surface)
                 /\ UNCHANGED <<surface, pickerProduct>>
            [] reject = "login" ->
                 /\ notice' = LoginMessage(surface)
                 /\ surface' = "login"
                 /\ UNCHANGED pickerProduct
            [] OTHER ->
                 /\ notice' = IF surface = "wishlist" THEN NoMessage ELSE notice
                 /\ pickerProduct' = p
                 /\ UNCHANGED surface
    /\ UNCHANGED <<atcError, atcWorking, detailProduct, atcReq, srvCart, addCalls>>

\* The picker's Cancel / backdrop: onClose={() => setPickerProduct(null)}.
onClosePicker ==
    /\ pickerProduct # NoProduct
    /\ atcReq.phase = "idle"
    /\ pickerProduct' = NoProduct
    /\ UNCHANGED <<surface, notice, atcError, atcWorking, detailProduct, atcReq,
                   srvCart, addCalls>>

AddRequest(s, vendor) ==
    [phase |-> "request", surface |-> s, vendor |-> vendor, status |-> 0,
     detail |-> <<>>]

\* onConfirmAddToCart up to its await (HomeCatalogSection 272-278, wishlist
\* page 111-119, part_012 179-185), called by the picker's confirm button,
\* which is disabled while a confirm is running (VariantPickerModal 114, 191).
onConfirmAddToCart ==
    /\ surface \in {"home", "wishlist", "products"}
    /\ atcReq.phase = "idle"
    /\ accessToken # NoToken
    /\ pickerProduct # NoProduct
    /\ addCalls < MaxAddCalls
    /\ addCalls' = addCalls + 1
    /\ atcReq' = AddRequest(surface, pickerProduct.vendor)
    /\ IF surface = "wishlist"
       THEN atcWorking' = TRUE /\ atcError' = NoError /\ notice' = NoMessage
       ELSE UNCHANGED <<atcWorking, atcError, notice>>
    /\ UNCHANGED <<surface, pickerProduct, detailProduct, srvCart>>

\* ProductDetailPage.onAddToCart up to its await (chat/page.tsx 646-661).
onAddToCartDetail(qty) ==
    /\ surface = "detail"
    /\ atcReq.phase = "idle"
    /\ IF ~detailProduct.purchasable
       THEN /\ notice' = NotPurchasableMessage("detail")
            /\ UNCHANGED <<surface, atcReq, addCalls>>
       ELSE IF accessToken = NoToken
       THEN /\ notice' = LoginMessage("detail")
            /\ surface' = "login"
            /\ UNCHANGED <<atcReq, addCalls>>
       ELSE IF qty < 1
       THEN /\ notice' = "Quantity must be at least 1."
            /\ UNCHANGED <<surface, atcReq, addCalls>>
       ELSE /\ addCalls < MaxAddCalls
            /\ addCalls' = addCalls + 1
            /\ atcReq' = AddRequest("detail", detailProduct.vendor)
            /\ UNCHANGED <<surface, notice>>
    /\ UNCHANGED <<atcError, atcWorking, pickerProduct, detailProduct, srvCart>>

IdleRequest ==
    [phase |-> "idle", surface |-> "", vendor |-> "", status |-> 0, detail |-> <<>>]

\* addCartItem resolves: the try block after the await (HomeCatalogSection
\* 279-282, chat/page.tsx 662-665, wishlist page 120-122 and 130-132,
\* part_012 186-189).  The wishlist stays where it is.
addCartItemResolved ==
    /\ atcReq.phase = "resolved"
    /\ atcReq' = IdleRequest
    /\ notice' = AddedMessage(atcReq.surface)
    /\ pickerProduct' = NoProduct
    /\ surface' = IF atcReq.surface = "wishlist" THEN surface ELSE "cart"
    /\ atcError' = IF atcReq.surface = "detail" THEN NoError ELSE atcError
    /\ atcWorking' = FALSE
    /\ UNCHANGED <<detailProduct, srvCart, addCalls>>

addCartItemRejected_Retry ==
    /\ atcReq.phase = "rejected"
    /\ addCalls < MaxAddCalls
    /\ addCalls' = addCalls + 1
    /\ atcReq' = AddRequest(atcReq.surface, atcReq.vendor)
    /\ UNCHANGED <<surface, notice, atcError, atcWorking, pickerProduct,
                   detailProduct, srvCart>>

\* addCartItem rejects: the catch block (HomeCatalogSection 283-291,
\* chat/page.tsx 666-673, wishlist page 123-132, part_012 190-198).  On a
\* conflict every surface sets its message and pushes the cart route; the
\* home catalog and the product list also close the picker.
addCartItemRejected ==
    /\ atcReq.phase = "rejected"
    /\ atcReq' = IdleRequest
    /\ atcWorking' = FALSE
    /\ IF Includes409(ErrorMessage(atcReq.status, atcReq.detail))
       THEN /\ notice' = ConflictMessage(atcReq.surface)
            /\ pickerProduct' = IF atcReq.surface \in {"home", "products"}
                                THEN NoProduct ELSE pickerProduct
            /\ surface' = "cart"
            /\ UNCHANGED atcError
       ELSE /\ IF atcReq.surface = "wishlist"
               THEN atcError' = FailureMessage("wishlist") /\ UNCHANGED notice
               ELSE notice' = FailureMessage(atcReq.surface) /\ UNCHANGED atcError
            /\ UNCHANGED <<surface, pickerProduct>>
    /\ UNCHANGED <<detailProduct, srvCart, addCalls>>

notAddToCart == <<rtVars, accessToken, chatVars, coVars, sessVars, reads, ntVars,
                  bgVars, hkVars, catVars>>

Browse == \E s \in Surfaces, p \in Products : Mount(s, p) /\ UNCHANGED notAddToCart
AddToCartClick == \E p \in Products : onAddToCart(p) /\ UNCHANGED notAddToCart
PickerClose == onClosePicker /\ UNCHANGED notAddToCart
PickerConfirm == onConfirmAddToCart /\ UNCHANGED notAddToCart
DetailAddClick == \E qty \in {0, 1} : onAddToCartDetail(qty) /\ UNCHANGED notAddToCart
AddServed == SrvAddCartItem /\ UNCHANGED notAddToCart
AddServedError == SrvAddCartItemFails /\ UNCHANGED notAddToCart
AddResolved == addCartItemResolved /\ UNCHANGED notAddToCart
AddRejected == addCartItemRejected /\ UNCHANGED notAddToCart
CartRemove == onRemove /\ UNCHANGED notAddToCart

NextAddToCart ==
    \/ Browse \/ AddToCartClick \/ PickerClose \/ PickerConfirm \/ DetailAddClick
    \/ AddServed \/ AddServedError \/ AddResolved \/ AddRejected \/ CartRemove

SpecAddToCart == Init /\ [][NextAddToCart]_vars

\* --------------------------------------------------- add-to-cart claims
ConflictArrives == atcReq.phase = "rejected" /\ atcReq.status = 409 /\ addCartItemRejected

\* C11: on the conflict response every entry point shows the one fixed
\* message, closes the variant picker and routes to the cart view.
UniformConflictReaction ==
    [][ConflictArrives
        => /\ \A s \in Surfaces : notice' = ConflictMessage(s)
           /\ pickerProduct' = NoProduct
           /\ surface' = "cart"]_vars

\* C12: an add of another vendor's variant is answered with the conflict and
\* leaves the cart as it is; the client then shows the conflict message,
\* routes to the cart view and sends nothing: a request is only ever sent by
\* a confirm of the user, one per confirm.
ConflictNotRetried ==
    /\ [][(atcReq.phase = "request" /\ srvCart.vendorId \notin {NoVendor, atcReq.vendor}
              /\ SrvAddCartItem)
            => (atcReq'.phase = "rejected" /\ atcReq'.status = 409 /\ srvCart' = srvCart)]_vars
    /\ [][ConflictArrives
            => /\ notice' = ConflictMessage(atcReq.surface)
               /\ surface' = "cart"
               /\ atcReq' = IdleRequest
               /\ UNCHANGED <<srvCart, addCalls>>]_vars
    /\ [][addCalls' # addCalls
            => /\ atcReq.phase = "idle"
               /\ atcReq'.phase = "request"
               /\ addCalls' = addCalls + 1]_vars

\* Scenario A after the conflict: the cart still holds its one line of V1,
\* the cart view is shown with a conflict message, nothing is in flight.
ConflictNotRetriedWitness ==
    /\ srvCart = [vendorId |-> "V1", lines |-> 1]
    /\ surface = "cart"
    /\ notice \in {ConflictMessage(s) : s \in Surfaces}
    /\ atcReq = IdleRequest
    /\ addCalls = 2

\* =========================================================================
\* Notification sync: useNotificationsRealtime (hook) and NotificationsPage.
\* onLoadMore and onOpenNotification are left out: a second page needs more
\* than PageLimit notifications, and opening a notification leaves the page.
\* =========================================================================
NtRequest(kind, id) ==
    [kind |-> kind, phase |-> "request", id |-> id, items |-> <<>>, readAt |-> 0]

NtNewEvent(n) == [type |-> "new", id |-> n.id, readAt |-> n.readAt]
NtReadEvent(id, readAt) == [type |-> "read", id |-> id, readAt |-> readAt]
NtReadAllEvent(readAt) == [type |-> "readAll", id |-> 0, readAt |-> readAt]

\* The server emits an event to the user's sockets; one emitted while the
\* client is not connected is lost.
Emit(events, e) ==
    IF Len(events) < MaxNtEvents THEN {events, Append(events, e)} ELSE {events}

UnreadCount == Cardinality({i \in DOMAIN notifications : notifications[i].readAt = 0})

\* prev.map((item) => item.id === id ? { ...item, readAt } : item)
SetReadAt(items, id, readAt) ==
    [i \in DOMAIN items |->
        IF items[i].id = id THEN [items[i] EXCEPT !.readAt = readAt] ELSE items[i]]

MarkUnread_Overwrite(items, readAt) ==
    [i \in DOMAIN items |-> [items[i] EXCEPT !.readAt = readAt]]

\* prev.map((item) => (item.readAt ? item : { ...item, readAt }))
MarkUnread(items, readAt) ==
    [i \in DOMAIN items |->
        IF items[i].readAt # 0 THEN items[i] ELSE [items[i] EXCEPT !.readAt = readAt]]

\* ------------------------------------------------------------- backend
\* A notification is created for the user and announced.
SrvNotify ==
    /\ Len(srvNotifs) < MaxNotifs
    /\ LET n == [id |-> Len(srvNotifs) + 1, readAt |-> 0] IN
       /\ srvNotifs' = Append(srvNotifs, n)
       /\ ntEvents' \in Emit(ntEvents, NtNewEvent(n))
    /\ UNCHANGED <<notifications, ntLoading, ntWorking, ntError, ntReqs, clock>>

\* GET /notifications?limit=20: the newest notifications, newest first.
SrvListNotifications(r) ==
    /\ ntReqs[r].kind = "list"
    /\ ntReqs[r].phase = "request"
    /\ ntReqs' = [ntReqs EXCEPT ![r].phase = "response",
                                ![r].items = Take(Reverse(srvNotifs), PageLimit)]
    /\ UNCHANGED <<notifications, ntLoading, ntWorking, ntError, ntEvents,
                   srvNotifs, clock>>

\* The stamps a mark-read of notification id can get: the time it is
\* handled, or the stamp the notification already carries.
SrvStamps(id) ==
    (IF clock < MaxStamp THEN {clock + 1} ELSE {})
        \cup {srvNotifs[i].readAt : i \in {j \in DOMAIN srvNotifs :
                                              srvNotifs[j].id = id /\ srvNotifs[j].readAt # 0}}

\* A mark-read of notification id is stored and announced as
\* notifications:read.
SrvStamp(id, stamp) ==
    /\ clock' = IF stamp > clock THEN stamp ELSE clock
    /\ srvNotifs' = SetReadAt(srvNotifs, id, stamp)
    /\ ntEvents' \in Emit(ntEvents, NtReadEvent(id, stamp))

\* PATCH /notifications/:id/read from this page.
SrvMarkRead(r) ==
    /\ ntReqs[r].kind = "markRead"
    /\ ntReqs[r].phase = "request"
    /\ \E stamp \in SrvStamps(ntReqs[r].id) :
           /\ SrvStamp(ntReqs[r].id, stamp)
           /\ ntReqs' = [ntReqs EXCEPT ![r].phase = "response", ![r].readAt = stamp]
    /\ UNCHANGED <<notifications, ntLoading, ntWorking, ntError>>

\* The same user marks a notification read from another session.
SrvOtherMarkRead(id) ==
    /\ id \in DOMAIN srvNotifs
    /\ \E stamp \in SrvStamps(id) : SrvStamp(id, stamp)
    /\ UNCHANGED <<notifications, ntLoading, ntWorking, ntError, ntReqs>>

\* PATCH /notifications/read-all: every unread notification gets the one
\* stamp, announced as notifications:read-all.
SrvMarkAllRead(r) ==
    /\ ntReqs[r].kind = "markAll"
    /\ ntReqs[r].phase = "request"
    /\ clock < MaxStamp
    /\ clock' = clock + 1
    /\ srvNotifs' = MarkUnread(srvNotifs, clock + 1)
    /\ ntEvents' \in Emit(ntEvents, NtReadAllEvent(clock + 1))
    /\ ntReqs' = [ntReqs EXCEPT ![r].phase = "response", ![r].readAt = clock + 1]
    /\ UNCHANGED <<notifications, ntLoading, ntWorking, ntError>>

\* ------------------------------------------------------------- client
\* The hook's handlers are registered while it has a token (hook 21-27, 52-56).
NtHandlersRegistered == accessToken # NoToken

handleNewNotification_Append(payload) ==
    notifications' = IF HasId(notifications, payload.id)
                     THEN notifications
                     ELSE Append(notifications,
                                 [id |-> payload.id, readAt |-> payload.readAt])

\* handleNewNotification (hook 31-38)
handleNewNotification(payload) ==
    notifications' = IF HasId(notifications, payload.id)
                     THEN notifications
                     ELSE <<[id |-> payload.id, readAt |-> payload.readAt]>> \o notifications

\* handleRead of the notifications hook (hook 39-45)
handleNotificationRead(payload) ==
    notifications' = SetReadAt(notifications, payload.id, payload.readAt)

\* handleReadAll (hook 46-50)
handleReadAll(payload) ==
    notifications' = MarkUnread(notifications, payload.readAt)

\* The socket delivers its oldest queued event to the hook.
NtDeliver ==
    /\ ntEvents # <<>>
    /\ NtHandlersRegistered
    /\ LET e == Head(ntEvents) IN
       CASE e.type = "new" -> handleNewNotification(e)
         [] e.type = "read" -> handleNotificationRead(e)
         [] OTHER -> handleReadAll(e)
    /\ ntEvents' = Tail(ntEvents)
    /\ UNCHANGED <<ntLoading, ntWorking, ntError, ntReqs, srvNotifs, clock>>

\* The mount effect's listNotifications resolves (page 118-125, 132-136).
listNotificationsResolved(r) ==
    /\ ntReqs[r].kind = "list"
    /\ ntReqs[r].phase = "response"
    /\ notifications' = ntReqs[r].items
    /\ ntError' = NoError
    /\ ntLoading' = FALSE
    /\ ntReqs' = RemoveAt(ntReqs, r)
    /\ UNCHANGED <<ntWorking, ntEvents, srvNotifs, clock>>

\* ... or rejects (page 126-136).
listNotificationsFailed(r) ==
    /\ ntReqs[r].kind = "list"
    /\ ntError' = "Failed to load notifications."
    /\ ntLoading' = FALSE
    /\ ntReqs' = RemoveAt(ntReqs, r)
    /\ UNCHANGED <<notifications, ntWorking, ntEvents, srvNotifs, clock>>

\* onMarkRead up to its await (page 143-149)
onMarkRead(id) ==
    /\ accessToken # NoToken
    /\ ntWorking' = TRUE
    /\ ntReqs' = Append(ntReqs, NtRequest("markRead", id))
    /\ UNCHANGED <<notifications, ntLoading, ntError, ntEvents, srvNotifs, clock>>

\* onMarkRead after markNotificationRead resolves (page 150-152, 156):
\* readAt is the response's, or the client's time when it carries none.
onMarkReadResolved(r) ==
    /\ ntReqs[r].kind = "markRead"
    /\ ntReqs[r].phase = "response"
    /\ LET readAt == IF ntReqs[r].readAt # 0 THEN ntReqs[r].readAt ELSE clock + 1 IN
       notifications' = SetReadAt(notifications, ntReqs[r].id, readAt)
    /\ ntWorking' = FALSE
    /\ ntReqs' = RemoveAt(ntReqs, r)
    /\ UNCHANGED <<ntLoading, ntError, ntEvents, srvNotifs, clock>>

\* markNotificationRead rejects (page 153-156).
onMarkReadFailed(r) ==
    /\ ntReqs[r].kind = "markRead"
    /\ ntError' = "Failed to mark notification as read."
    /\ ntWorking' = FALSE
    /\ ntReqs' = RemoveAt(ntReqs, r)
    /\ UNCHANGED <<notifications, ntLoading, ntEvents, srvNotifs, clock>>

\* onMarkAllRead up to its await (page 182-188)
onMarkAllRead ==
    /\ accessToken # NoToken
    /\ ntWorking' = TRUE
    /\ ntReqs' = Append(ntReqs, NtRequest("markAll", 0))
    /\ UNCHANGED <<notifications, ntLoading, ntError, ntEvents, srvNotifs, clock>>

\* onMarkAllRead after markAllNotificationsRead resolves (page 189-192, 196)
onMarkAllReadResolved(r) ==
    /\ ntReqs[r].kind = "markAll"
    /\ ntReqs[r].phase = "response"
    /\ LET readAt == IF ntReqs[r].readAt # 0 THEN ntReqs[r].readAt ELSE clock + 1 IN
       notifications' = MarkUnread(notifications, readAt)
    /\ ntWorking' = FALSE
    /\ ntReqs' = RemoveAt(ntReqs, r)
    /\ UNCHANGED <<ntLoading, ntError, ntEvents, srvNotifs, clock>>

\* markAllNotificationsRead rejects (page 193-196).
onMarkAllReadFailed(r) ==
    /\ ntReqs[r].kind = "markAll"
    /\ ntError' = "Failed to mark all notifications as read."
    /\ ntWorking' = FALSE
    /\ ntReqs' = RemoveAt(ntReqs, r)
    /\ UNCHANGED <<notifications, ntLoading, ntEvents, srvNotifs, clock>>

notInbox == <<rtVars, accessToken, chatVars, coVars, sessVars, reads, atcVars,
              bgVars, hkVars, catVars>>

Notify == SrvNotify /\ UNCHANGED notInbox
ListServed == \E r \in DOMAIN ntReqs : SrvListNotifications(r) /\ UNCHANGED notInbox
ListResolved == \E r \in DOMAIN ntReqs : listNotificationsResolved(r) /\ UNCHANGED notInbox
ListFailed == \E r \in DOMAIN ntReqs : listNotificationsFailed(r) /\ UNCHANGED notInbox
EventDelivered == NtDeliver /\ UNCHANGED notInbox
\* The "Mark read" button of an unread item (page 255-299).
MarkReadClick ==
    \E i \in DOMAIN notifications :
        /\ ~ntLoading
        /\ ~ntWorking
        /\ notifications[i].readAt = 0
        /\ onMarkRead(notifications[i].id)
        /\ UNCHANGED notInbox
MarkReadServed == \E r \in DOMAIN ntReqs : SrvMarkRead(r) /\ UNCHANGED notInbox
MarkReadResolved == \E r \in DOMAIN ntReqs : onMarkReadResolved(r) /\ UNCHANGED notInbox
MarkReadFailed == \E r \in DOMAIN ntReqs : onMarkReadFailed(r) /\ UNCHANGED notInbox
OtherMarkRead == \E id \in DOMAIN srvNotifs : SrvOtherMarkRead(id) /\ UNCHANGED notInbox
\* The "Mark all read" button (page 239-246).
MarkAllClick ==
    /\ ~ntWorking
    /\ UnreadCount # 0
    /\ onMarkAllRead
    /\ UNCHANGED notInbox
MarkAllServed == \E r \in DOMAIN ntReqs : SrvMarkAllRead(r) /\ UNCHANGED notInbox
MarkAllResolved == \E r \in DOMAIN ntReqs : onMarkAllReadResolved(r) /\ UNCHANGED notInbox
MarkAllFailed == \E r \in DOMAIN ntReqs : onMarkAllReadFailed(r) /\ UNCHANGED notInbox

NextInbox ==
    \/ Notify \/ ListServed \/ ListResolved \/ ListFailed \/ EventDelivered
    \/ MarkReadClick \/ MarkReadServed \/ MarkReadResolved \/ MarkReadFailed
    \/ OtherMarkRead
    \/ MarkAllClick \/ MarkAllServed \/ MarkAllResolved \/ MarkAllFailed

SpecInbox == Init /\ [][NextInbox]_vars

\* =========================================================================
\* Badge aggregator: NavActionIcons (MobileNavDrawer part_005 126-156 has the
\* same refreshCounts, with a countsLoading flag around it)
\* =========================================================================
\* refreshCounts (NavActionIcons 96-111) with the token of the render that
\* created it, up to its await.
refreshCounts(t, path) ==
    IF t = NoToken
    THEN /\ counts' = ZeroCounts
         /\ UNCHANGED <<bgReqs, bgLast>>
    ELSE /\ Len(bgReqs) < MaxRefreshes
         /\ bgReqs' = Append(bgReqs, NewRefresh(t, path, navInstance))
         /\ UNCHANGED <<counts, bgLast>>

\* What the four fetches of a call have returned when Promise.all settles:
\* a count, or Pending for a fetch that has not returned or has failed.
FetchResults == [BadgeKeys -> {Pending} \cup 0..MaxCount]

\* React drops a state update of a component instance that is unmounted.
InstanceAlive(r) == navMounted /\ bgReqs[r].instance = navInstance

ResetOnFailure_KeepStale(results) == counts

\* The catch branch (NavActionIcons 118-123).
ResetOnFailure(results) == ZeroCounts

\* Promise.all resolved with the four results (NavActionIcons 112-117).
refreshCountsResolved(r, results) ==
    /\ \A k \in BadgeKeys : results[k] # Pending
    /\ counts' = IF InstanceAlive(r) THEN results ELSE counts
    /\ bgReqs' = RemoveAt(bgReqs, r)
    /\ bgLast' = Settled("resolved", InstanceAlive(r), "none", 0)
    /\ UNCHANGED <<pathname, navMounted, navInstance>>

\* Promise.all rejected because the fetch of counter failed did, the others
\* having returned results so far (NavActionIcons 118-123).
refreshCountsRejected(r, results, failed) ==
    /\ results[failed] = Pending
    /\ counts' = IF InstanceAlive(r) THEN ResetOnFailure(results) ELSE counts
    /\ bgReqs' = RemoveAt(bgReqs, r)
    /\ bgLast' = Settled("rejected", InstanceAlive(r), failed, counts[failed])
    /\ UNCHANGED <<pathname, navMounted, navInstance>>

\* The route changes: the effect on [refreshCounts, pathname] runs
\* (NavActionIcons 126-128).
onPathname ==
    /\ navMounted
    /\ pathname < MaxNav
    /\ pathname' = pathname + 1
    /\ refreshCounts(accessToken, pathname')
    /\ UNCHANGED <<navMounted, navInstance>>

\* A socket event or the HEADER_COUNTS_REFRESH_EVENT (NavActionIcons 136-153,
\* 172-180).
onRefreshEvent ==
    /\ navMounted
    /\ refreshCounts(accessToken, pathname)
    /\ UNCHANGED <<pathname, navMounted, navInstance>>

\* The session changes: refreshCounts is recreated and the effect on
\* [refreshCounts, pathname] runs it (NavActionIcons 124-128).
onAccessToken(t) ==
    /\ navMounted
    /\ t # accessToken
    /\ accessToken' = t
    /\ refreshCounts(t, pathname)
    /\ UNCHANGED <<pathname, navMounted, navInstance>>

\* The header is unmounted: its state is gone.
NavUnmount ==
    /\ navMounted
    /\ navMounted' = FALSE
    /\ counts' = ZeroCounts
    /\ UNCHANGED <<pathname, navInstance, bgReqs, bgLast>>

\* The header is mounted again: fresh state, and the mount effect runs.
NavMount ==
    /\ ~navMounted
    /\ navInstance < MaxMounts
    /\ navMounted' = TRUE
    /\ navInstance' = navInstance + 1
    /\ IF accessToken = NoToken
       THEN counts' = ZeroCounts /\ UNCHANGED bgReqs
       ELSE /\ Len(bgReqs) < MaxRefreshes
            /\ bgReqs' = Append(bgReqs, NewRefresh(accessToken, pathname, navInstance'))
            /\ UNCHANGED counts
    /\ UNCHANGED <<pathname, bgLast>>

notBadges == <<rtVars, chatVars, coVars, sessVars, reads, ntVars, atcVars, hkVars,
               catVars>>

BadgeResolved ==
    \E r \in DOMAIN bgReqs, results \in FetchResults :
        refreshCountsResolved(r, results) /\ UNCHANGED <<accessToken, notBadges>>
BadgeRejected ==
    \E r \in DOMAIN bgReqs, results \in FetchResults, failed \in BadgeKeys :
        refreshCountsRejected(r, results, failed) /\ UNCHANGED <<accessToken, notBadges>>
BadgeNavigate == onPathname /\ UNCHANGED <<accessToken, notBadges>>
BadgeEvent == onRefreshEvent /\ UNCHANGED <<accessToken, notBadges>>
BadgeSession == \E t \in {NoToken, "t1"} : onAccessToken(t) /\ UNCHANGED notBadges
BadgeUnmount == NavUnmount /\ UNCHANGED <<accessToken, notBadges>>
BadgeMount == NavMount /\ UNCHANGED <<accessToken, notBadges>>

NextBadges ==
    \/ BadgeResolved \/ BadgeRejected
    \/ BadgeNavigate \/ BadgeEvent \/ BadgeSession \/ BadgeUnmount \/ BadgeMount

SpecBadges == Init /\ [][NextBadges]_vars

\* =========================================================================
\* The realtime hooks' connection state: useOrderChatRealtime (part_000) and
\* useNotificationsRealtime
\* =========================================================================
\* The hook's effect passes its guard (hook 26-29; notifications hook 22-25).
HookActive(c, t, o) == t # NoToken /\ (c = "chat" => o # NoOrder)

SocketConnected(ss, i) == i # 0 /\ ss[i].state = "connected"

\* The chat hook's effect ends with: if (socket.connected) handleConnect()
\* (hook 73-75).
ConnectedAtEffect_Never(c, up) == FALSE

\* The notifications hook's effect has no such line (notifications hook 52-56).
ConnectedAtEffect(c, up) == c = "chat" /\ up

\* The effects of the hooks in rerun run, in one commit, with token t and
\* order id o: each runs its cleanup, then returns at its guard with
\* setConnected(false) or takes the shared socket and registers its handlers.
RunEffects(rerun, t, o) ==
    /\ IF \E c \in rerun : HookActive(c, t, o)
       THEN getRealtimeSocket(t)
       ELSE UNCHANGED rtVars
    /\ LET up == SocketConnected(sockets', sharedSocket') IN
       /\ handle' = [c \in Consumers |->
                        IF c \in rerun
                        THEN IF HookActive(c, t, o) THEN sharedSocket' ELSE 0
                        ELSE handle[c]]
       /\ connected' = [c \in Hooks |->
                           IF c \in rerun
                           THEN IF ~HookActive(c, t, o) THEN FALSE
                                ELSE IF ConnectedAtEffect(c, up) THEN TRUE
                                ELSE connected[c]
                           ELSE connected[c]]
       /\ subscribed' = IF sharedSocket' # sharedSocket THEN {}
                        ELSE IF "chat" \in rerun /\ HookActive("chat", t, o)
                                /\ ConnectedAtEffect("chat", up)
                             THEN subscribed \cup {o}
                             ELSE subscribed

\* A component that uses the hook is mounted: fresh state, then the effect.
HookMount(c) ==
    /\ c \notin hooksMounted
    /\ hooksMounted' = hooksMounted \cup {c}
    /\ RunEffects({c}, accessToken, hookOrderId)
    /\ UNCHANGED <<accessToken, hookOrderId, logoutPending>>

\* It is unmounted: the cleanup removes the handlers and the state is gone.
HookUnmount(c) ==
    /\ c \in hooksMounted
    /\ hooksMounted' = hooksMounted \ {c}
    /\ handle' = [handle EXCEPT ![c] = 0]
    /\ connected' = [connected EXCEPT ![c] = FALSE]
    /\ hookOrderId' = IF c = "chat" THEN NoOrder ELSE hookOrderId
    /\ UNCHANGED <<rtVars, accessToken, subscribed, logoutPending>>

\* The chat page passes another order id: the effect on [accessToken,
\* orderId] runs again (hook 83).
HookOrderId(o) ==
    /\ "chat" \in hooksMounted
    /\ o # hookOrderId
    /\ hookOrderId' = o
    /\ RunEffects({"chat"}, accessToken, o)
    /\ UNCHANGED <<accessToken, hooksMounted, logoutPending>>

\* The session changes: every mounted hook's effect runs again.
HookAccessToken(t) ==
    /\ t # accessToken
    /\ t = NoToken \/ accessToken = NoToken
    /\ accessToken' = t
    /\ RunEffects(hooksMounted, t, hookOrderId)
    /\ UNCHANGED <<hooksMounted, hookOrderId, logoutPending>>

\* handleConnect of each hook registered on socket i (hook 33-36;
\* notifications hook 29).
handleConnect(i) ==
    /\ TransportUp(i)
    /\ connected' = [c \in Hooks |-> IF handle[c] = i THEN TRUE ELSE connected[c]]
    /\ subscribed' = IF i # sharedSocket THEN subscribed
                     ELSE IF handle["chat"] = i THEN {hookOrderId} ELSE {}
    /\ UNCHANGED <<accessToken, hooksMounted, hookOrderId, handle, logoutPending>>

\* handleDisconnect of each hook registered on socket i (hook 37;
\* notifications hook 30).
handleDisconnect(i) ==
    /\ TransportLost(i)
    /\ connected' = [c \in Hooks |-> IF handle[c] = i THEN FALSE ELSE connected[c]]
    /\ subscribed' = IF i = sharedSocket THEN {} ELSE subscribed
    /\ UNCHANGED <<accessToken, hooksMounted, hookOrderId, handle, logoutPending>>

notHooks == <<chatVars, coVars, reads, ntVars, atcVars, bgVars, catVars>>

HooksMount == \E c \in Hooks : HookMount(c) /\ UNCHANGED notHooks
HooksUnmount == \E c \in Hooks : HookUnmount(c) /\ UNCHANGED notHooks
HooksThread == \E o \in Threads \cup {NoOrder} : HookOrderId(o) /\ UNCHANGED notHooks
HooksSession == \E t \in Tokens \cup {NoToken} : HookAccessToken(t) /\ UNCHANGED notHooks
HooksConnect == \E i \in DOMAIN sockets : handleConnect(i) /\ UNCHANGED notHooks
HooksDisconnect == \E i \in DOMAIN sockets : handleDisconnect(i) /\ UNCHANGED notHooks

NextHooks ==
    \/ HooksMount \/ HooksUnmount \/ HooksThread \/ HooksSession
    \/ HooksConnect \/ HooksDisconnect

SpecHooks == Init /\ [][NextHooks]_vars

\* =========================================================================
\* Home catalog: HomeCatalogSection's category filter
\* =========================================================================
\* HomeCatalogSection is mounted with the server-rendered products ip and
\* its mount effects run (HomeCatalogSection 99-130, 206-228): ip is cached
\* under "all"; if it is empty the first listProducts call is sent.
HomeMount(ip) ==
    /\ ~homeMounted
    /\ homeMounted' = TRUE
    /\ initialProducts' = ip
    /\ selectedCategoryId' = ALL_CATEGORY_ID
    /\ homeProducts' = ip
    /\ homeLoading' = (ip = <<>>)
    /\ homeError' = NoError
    /\ requestSeq' = 1
    /\ cache' = [cache EXCEPT ![ALL_CATEGORY_ID] = IF ip # <<>> THEN ip ELSE NotLoaded]
    /\ catReqs' = IF ip # <<>>
                  THEN <<>>
                  ELSE <<[key |-> ALL_CATEGORY_ID, seq |-> 1, alive |-> TRUE]>>

\* response.items.filter((item) => item.status === 'ACTIVE')
ActiveItems(items) == SelectSeq(items, LAMBDA p : p.status = "ACTIVE")

\* The effect on [initialProducts, selectedCategoryId] (HomeCatalogSection
\* 119-130), as a function of the cache it finds.
InitialProductsEffect(ch) ==
    [ch EXCEPT ![ALL_CATEGORY_ID] =
        IF initialProducts # <<>> THEN initialProducts ELSE NotLoaded]

\* The cleanup of the category effect's previous run: alive = false.
Cleanup(reqs) == [i \in DOMAIN reqs |-> [reqs[i] EXCEPT !.alive = FALSE]]

\* The category effect (HomeCatalogSection 206-228) run for key c on cache
\* ch, with shown the products the earlier effect of the commit has set.
CategoryEffect(c, ch, shown) ==
    /\ requestSeq < MaxSeq
    /\ requestSeq' = requestSeq + 1
    /\ cache' = ch
    /\ homeError' = NoError
    /\ IF ch[c] # NotLoaded
       THEN /\ homeProducts' = ch[c]
            /\ homeLoading' = FALSE
            /\ catReqs' = Cleanup(catReqs)
       ELSE /\ Len(catReqs) < MaxCatReqs
            /\ homeProducts' = shown
            /\ homeLoading' = TRUE
            /\ catReqs' = Append(Cleanup(catReqs),
                                 [key |-> c, seq |-> requestSeq', alive |-> TRUE])

\* A category button is clicked (HomeCatalogSection 355, 368): both effects
\* run, in the order they are declared.
onSelectCategory(c) ==
    /\ homeMounted
    /\ c # selectedCategoryId
    /\ selectedCategoryId' = c
    /\ CategoryEffect(c, InitialProductsEffect(cache),
                      IF c = ALL_CATEGORY_ID THEN initialProducts ELSE homeProducts)
    /\ UNCHANGED <<homeMounted, initialProducts>>

\* The Retry button of the error banner (HomeCatalogSection 396-411): the
\* key is dropped from the cache and reloadToken reruns the category effect.
onRetry ==
    /\ homeError # NoError
    /\ CategoryEffect(selectedCategoryId,
                      [cache EXCEPT ![selectedCategoryId] = NotLoaded], homeProducts)
    /\ UNCHANGED <<homeMounted, initialProducts, selectedCategoryId>>

\* The guard of the three continuations (HomeCatalogSection 230, 241, 247).
IsCurrent_Always(req) == TRUE

IsCurrent(req) == req.alive /\ requestSeq = req.seq

\* listProducts resolves (HomeCatalogSection 229-239, 246-250).
listProductsResolved(r, items) ==
    /\ IF IsCurrent(catReqs[r])
       THEN /\ cache' = [cache EXCEPT ![catReqs[r].key] = ActiveItems(items)]
            /\ homeProducts' = ActiveItems(items)
            /\ homeLoading' = FALSE
       ELSE UNCHANGED <<cache, homeProducts, homeLoading>>
    /\ catReqs' = RemoveAt(catReqs, r)
    /\ UNCHANGED <<homeMounted, initialProducts, selectedCategoryId, homeError,
                   requestSeq>>

\* listProducts rejects (HomeCatalogSection 240-250).
listProductsRejected(r) ==
    /\ IF IsCurrent(catReqs[r])
       THEN /\ homeError' = "Failed to load products for this category."
            /\ homeLoading' = FALSE
       ELSE UNCHANGED <<homeError, homeLoading>>
    /\ catReqs' = RemoveAt(catReqs, r)
    /\ UNCHANGED <<homeMounted, initialProducts, selectedCategoryId, homeProducts,
                   requestSeq, cache>>

notCatalog == <<rtVars, accessToken, chatVars, coVars, sessVars, reads, ntVars,
                atcVars, bgVars, hkVars>>

CatalogMount ==
    \E ip \in SrvProducts(ALL_CATEGORY_ID) :
        HomeMount(ActiveItems(ip)) /\ UNCHANGED notCatalog
SelectCategory ==
    \E c \in Categories \cup {ALL_CATEGORY_ID} : onSelectCategory(c) /\ UNCHANGED notCatalog
Retry == onRetry /\ UNCHANGED notCatalog
ProductsResolved ==
    \E r \in DOMAIN catReqs : \E items \in SrvProducts(catReqs[r].key) :
        listProductsResolved(r, items) /\ UNCHANGED notCatalog
ProductsRejected ==
    \E r \in DOMAIN catReqs : listProductsRejected(r) /\ UNCHANGED notCatalog

NextCatalog == CatalogMount \/ SelectCategory \/ Retry \/ ProductsResolved \/ ProductsRejected

SpecCatalog == Init /\ [][NextCatalog]_vars

\* ------------------------------------------------------------ chat claims
NoDuplicateIds ==
    \A i, j \in DOMAIN messages : i # j => messages[i].id # messages[j].id

\* A push of the thread's newest message was handled on the empty thread and
\* a history page holding that message and an older one is about to resolve.
PushedBeforeHistory(f) ==
    /\ fetches[f].phase = "response"
    /\ fetches[f].orderId = activeOrderId
    /\ Len(fetches[f].items) = 2
    /\ messages = <<fetches[f].items[1]>>

\* C3: no message id occurs twice in the thread's message sequence, whatever
\* the interleaving of history responses, pushes and send confirmations; and
\* when a push of m2 was handled first, the history response [m1, m2] leaves
\* exactly [m1, m2].
ThreadIdsUnique ==
    /\ []NoDuplicateIds
    /\ [][\A f \in DOMAIN fetches :
            (PushedBeforeHistory(f) /\ loadMessagesResolved(f))
                => /\ Len(messages') = 2
                   /\ messages'[2] = messages[1]
                   /\ messages'[1].createdAt < messages'[2].createdAt]_vars

ThreadIdsUniqueWitness ==
    /\ \E f \in DOMAIN fetches : PushedBeforeHistory(f)
    /\ \E i \in DOMAIN srvMsgs : messages = <<srvMsgs[i]>>

\* C4: the message sequence is in ascending createdAt order.
AscendingCreatedAt ==
    \A i, j \in DOMAIN messages :
        i < j => messages[i].createdAt <= messages[j].createdAt

\* C5: a history response for an order that is no longer the active one is
\* discarded: resolving it leaves the message sequence as it was.
StaleHistoryDiscarded ==
    [][\A f \in DOMAIN fetches :
        (fetches[f].orderId # activeOrderId /\ loadMessagesResolved(f))
            => messages' = messages]_vars

\* C14: the read cursor stored for a participant never moves back: after any
\* chat:read event its lastReadAt is at least what it was.
ReadCursorMonotonic ==
    [][\A u \in Users : reads'[u].lastReadAt >= reads[u].lastReadAt]_vars

\* C17: a failed history fetch reports the failure and leaves the loaded
\* messages as they were.
HistoryFailureKeepsMessages ==
    [][\A f \in DOMAIN fetches :
        loadMessagesFailed(f)
            => /\ chatError' = "Failed to load messages."
               /\ messages' = messages]_vars

\* C18: while the thread stays open, a successful history response, a push or
\* a send confirmation for it removes none of its messages.
ThreadAppendOnly ==
    [][(/\ activeOrderId' = activeOrderId
        /\ \/ \E f \in DOMAIN fetches :
                  fetches[f].orderId = activeOrderId /\ loadMessagesResolved(f)
           \/ onSendResolved
           \/ pushed' # pushed)
        => \A i \in DOMAIN messages :
               messages[i].orderId = activeOrderId => HasId(messages', messages[i].id)]_vars

\* ---------------------------------------------------- notification claims
\* C13: a notification of the inbox that has readAt set does not lose it:
\* after any step every inbox item with its id has readAt set.
ReadAtNeverCleared ==
    [][\A i \in DOMAIN notifications :
        notifications[i].readAt # 0
            => \A j \in DOMAIN notifications' :
                   notifications'[j].id = notifications[i].id
                       => notifications'[j].readAt # 0]_vars

IsRead(id) ==
    \E i \in DOMAIN notifications :
        notifications[i].id = id /\ notifications[i].readAt # 0

ReadAllArrives ==
    ntEvents # <<>> /\ Head(ntEvents).type = "readAll" /\ NtDeliver

\* C15: a mark-read applied to a notification that is already read, and a
\* mark-all-read applied when nothing is unread, leave every readAt of the
\* inbox as it was.
MarkIdempotent ==
    [][/\ \A r \in DOMAIN ntReqs :
            (IsRead(ntReqs[r].id) /\ onMarkReadResolved(r))
                => notifications' = notifications
       /\ (/\ ntEvents # <<>>
           /\ Head(ntEvents).type = "read"
           /\ IsRead(Head(ntEvents).id)
           /\ NtDeliver)
                => notifications' = notifications
       /\ \A r \in DOMAIN ntReqs :
            (UnreadCount = 0 /\ onMarkAllReadResolved(r))
                => notifications' = notifications
       /\ (UnreadCount = 0 /\ ReadAllArrives)
                => notifications' = notifications]_vars

\* The inbox after a mark-all-read with stamp t: same items, the read ones
\* as they were, the unread ones read at t.
MarkAllOutcome(t) ==
    /\ Len(notifications') = Len(notifications)
    /\ \A i \in DOMAIN notifications :
           /\ notifications'[i].id = notifications[i].id
           /\ notifications'[i].readAt =
                  IF notifications[i].readAt # 0 THEN notifications[i].readAt ELSE t

\* C16: mark-all-read, by REST response or by notifications:read-all event,
\* sets readAt only on items without one, all to the one stamp it carries,
\* and leaves the readAt of read items unchanged.
MarkAllOnlyUnread ==
    [][/\ \A r \in DOMAIN ntReqs :
            (ntReqs[r].readAt # 0 /\ onMarkAllReadResolved(r))
                => MarkAllOutcome(ntReqs[r].readAt)
       /\ ReadAllArrives => MarkAllOutcome(Head(ntEvents).readAt)]_vars

\* One item was read earlier; the two others carry the one later stamp of a
\* mark-all-read.
MarkAllOnlyUnreadWitness ==
    /\ ntReqs = <<>>
    /\ \E i, j, k \in DOMAIN notifications :
           /\ i # j
           /\ notifications[k].readAt # 0
           /\ notifications[k].readAt < notifications[i].readAt
           /\ notifications[i].readAt = notifications[j].readAt

\* ------------------------------------------------------- checkout claims
OrderIds == {orders[i].id : i \in DOMAIN orders}

\* C2: an order whose payment initiation failed stays reported: the error
\* banner quotes its id with the retry instruction and the local cart state
\* is cleared.  No created order id is dropped: each is held by the submit in
\* flight, had its payment initiated, or is the one the banner quotes.
OrderAccountedFor(o) ==
    \/ o.paymentInitiated
    \/ \E s \in DOMAIN submits : submits[s].createdOrderId = o.id
    \/ /\ checkoutError = [text |-> PaymentFailedText, orderId |-> o.id]
       /\ cart = EmptyCart
       /\ shippingRate = NoRate

OrderOnlyWithCurrentRate ==
    [][(orderCalls' > orderCalls /\ fulfillment = "SHIPPING")
        => /\ rateReq = NoRequest
           /\ shippingRate.available
           /\ HasAddr(addresses, shippingAddrId)
           /\ shippingRate.forCountry = FindAddr(addresses, shippingAddrId).country]_vars

\* The reason submit() has to report in the current state: the first failing
\* precondition in the order cart, selection, rate.
ExpectedReason ==
    IF cart.items = <<>> THEN EmptyCartReason
    ELSE IF fulfillment = "SHIPPING"
         THEN IF shippingAddrId = NoAddr THEN NoAddressReason
              ELSE IF shippingRate = NoRate \/ ~shippingRate.available THEN NoRateReason
              ELSE NoError
         ELSE IF pickupLocId = NoPickup THEN NoPickupReason
              ELSE NoError

SubmitCalled == accessToken # NoToken /\ onPlaceOrder

\* C7: submit() with a session reports the first failing precondition in the
\* order cart non-empty, selection present, rate available; with an empty
\* cart that is the empty-cart reason whatever the selections are.
SubmitReportsFirstFailure ==
    [][(SubmitCalled /\ ExpectedReason # NoError)
        => checkoutError' = Err(ExpectedReason)]_vars

\* submit() was called on an empty cart whose pickup selection is missing too.
SubmitReportsFirstFailureWitness ==
    /\ accessToken # NoToken
    /\ cart.items = <<>>
    /\ fulfillment = "PICKUP"
    /\ pickupLocId = NoPickup
    /\ checkoutError = Err(EmptyCartReason)

PreconditionReasons == {EmptyCartReason, NoAddressReason, NoRateReason, NoPickupReason}

GenericReasons == {PlaceOrderFallback, ApiDetail, "Failed to load checkout data.", NoError}

\* C8: a submit() that fails a precondition sends no createOrder and no
\* payment request, does not start submitting, and sets one of four pairwise
\* distinct reasons, none of them a generic error.
SubmitRejectSendsNothing ==
    [][(SubmitCalled /\ ExpectedReason # NoError)
        => /\ UNCHANGED <<orderCalls, payCalls, orders, submits, submitting>>
           /\ checkoutError'.text \in PreconditionReasons \ GenericReasons
           /\ Cardinality(PreconditionReasons) = 4
           /\ \A r \in PreconditionReasons \ {ExpectedReason} :
                  checkoutError'.text # r]_vars

\* Scenario C: SHIPPING with a rate that resolved unavailable, submit called.
SubmitRejectSendsNothingWitness ==
    /\ cart.items # <<>>
    /\ fulfillment = "SHIPPING"
    /\ shippingAddrId # NoAddr
    /\ shippingRate # NoRate
    /\ ~shippingRate.available
    /\ checkoutError = Err(NoRateReason)
    /\ orderCalls = 0
    /\ ~submitting

\* C9: when createOrder fails the view ends with a plain error, no order id,
\* and cart, addresses, pickup locations, rate and selections as they were;
\* the place-order button is enabled again.
OrderFailureLeavesInputs ==
    [][\A s \in DOMAIN submits, t \in {PlaceOrderFallback, ApiDetail} :
        createOrderFailed(s, t)
            => /\ UNCHANGED <<cart, addresses, pickupLocations, shippingRate, fulfillment,
                             shippingAddrId, pickupLocId, mmkProvider, orders, payCalls>>
               /\ checkoutError' = Err(t)
               /\ ~submitting'
               /\ ~PlaceOrderDisabled']_vars

OrderFailureLeavesInputsWitness ==
    /\ checkoutError.text \in {PlaceOrderFallback, ApiDetail}
    /\ orderCalls > 0
    /\ orders = <<>>
    /\ submits = <<>>
    /\ cart.items # <<>>
    /\ ~PlaceOrderDisabled

PayCallsFor(id) == {j \in DOMAIN payCalls : payCalls[j].orderId = id}

\* C10: each created order gets exactly one payment request, to Stripe when
\* the order's currency is USD and otherwise to the regional provider that was
\* selected when submit was called.
PaymentRouting ==
    /\ [](\A i \in DOMAIN orders : Cardinality(PayCallsFor(orders[i].id)) = 1)
    /\ [][\A s \in DOMAIN submits, c \in Currencies :
            createOrderResolved(s, c)
                => payCalls' = Append(payCalls,
                       [provider |-> IF c = "USD" THEN "STRIPE" ELSE submits[s].mmkProvider,
                        orderId |-> Len(orders) + 1])]_vars
    /\ [][Len(submits') > Len(submits)
            => submits'[Len(submits')].mmkProvider = mmkProvider]_vars

\* An MMK order went to KBZPay, the provider selected at submit, although the
\* selection was changed while createOrder was awaited.
PaymentRoutingWitness ==
    \E s \in DOMAIN submits :
        /\ submits[s].phase = "payment"
        /\ submits[s].provider = "KBZPAY"
        /\ mmkProvider = "WAVE"
        /\ \E j \in DOMAIN payCalls :
               payCalls[j] = [provider |-> "KBZPAY", orderId |-> submits[s].createdOrderId]

\* ---------------------------------------------------------- session claims
\* C19: once the logout sequence has completed and no token is present, no
\* transport is open and the connection manager holds neither socket nor token.
LogoutDestroysConnection ==
    (accessToken = NoToken /\ ~logoutPending)
        => /\ OpenSockets = {}
           /\ sharedSocket = 0
           /\ socketToken = NoToken

\* C20: getRealtimeSocket with the held token returns the held socket and
\* changes nothing, so all consumers mounted under one token hold the one
\* shared socket.
SameTokenSameConnection ==
    /\ [](\A c \in Consumers : handle[c] # 0 => handle[c] = sharedSocket)
    /\ [][\A t \in Tokens :
            (sharedSocket # 0 /\ socketToken = t /\ getRealtimeSocket(t))
                => UNCHANGED rtVars]_vars

SameTokenSameConnectionWitness ==
    /\ Len(sockets) = 1
    /\ sockets[1].state = "connected"
    /\ \A c \in Consumers : handle[c] = 1

NextRealtime == Acquire \/ Release \/ SocketUp \/ SocketLost

SpecRealtime == Init /\ [][NextRealtime]_vars

\* C1: at most one transport is open at any time, and a socket that is no
\* longer the shared one (the prior socket after a token change or a
\* disconnect) is closed.
SingleConnection ==
    /\ Cardinality(OpenSockets) <= 1
    /\ \A i \in DOMAIN sockets : i # sharedSocket => sockets[i].state = "closed"

\* A token change happened: the socket of the first token is closed and the
\* socket opened for the other token is the shared, connected one.
SingleConnectionWitness ==
    \E i, j \in DOMAIN sockets :
        /\ i < j
        /\ sockets[i].token # sockets[j].token
        /\ sockets[i].state = "closed"
        /\ sharedSocket = j
        /\ socketToken = sockets[j].token
        /\ sockets[j].state = "connected"


\* The refreshCounts call r settles on a failed fetch and React applies its
\* state updates.
RefreshSettlesFailed(r, results, failed) ==
    refreshCountsRejected(r, results, failed) /\ InstanceAlive(r)

\* C21: when a badge refresh made with a token settles with one of its four
\* fetches failed, the counter of the failed fetch is zero afterwards,
\* whatever it showed before.
FailedCounterReset ==
    [][(/\ Len(bgReqs') < Len(bgReqs)
        /\ bgLast'.kind = "rejected"
        /\ bgLast'.applied)
          => counts'[bgLast'.failed] = 0]_vars

\* A refresh has just failed on a counter that showed a count, and it is zero.
FailedCounterResetWitness ==
    /\ bgLast.kind = "rejected"
    /\ bgLast.applied
    /\ bgLast.before > 0
    /\ navMounted
    /\ counts[bgLast.failed] = 0

\* C27: when a badge refresh settles with one fetch failed, each counter
\* whose own fetch succeeded shows the value that fetch returned.
FulfilledCountersShown ==
    [][\A r \in DOMAIN bgReqs, results \in FetchResults, failed \in BadgeKeys :
          RefreshSettlesFailed(r, results, failed)
              => \A k \in BadgeKeys :
                    results[k] # Pending => counts'[k] = results[k]]_vars

\* The refreshCounts call r was made before the header was unmounted, before
\* the route changed or for a session that is no longer the current one.
Superseded(r) ==
    \/ ~InstanceAlive(r)
    \/ bgReqs[r].pathname # pathname
    \/ bgReqs[r].token # accessToken

ThreadOpen ==
    "chat" \in hooksMounted /\ HookActive("chat", accessToken, hookOrderId)

\* C23: whenever the shared connection is connected while a thread is open,
\* chat:subscribe has been sent for that thread on the current transport: on
\* the first connect, on opening a thread while connected, and on every
\* reconnect.
SubscribedWhenConnected ==
    (ThreadOpen /\ SocketConnected(sockets, sharedSocket))
        => hookOrderId \in subscribed

\* Thread B was opened on a transport that was already connected and
\* subscribed for thread A, and B is subscribed too.
SubscribedWhenConnectedWitness ==
    /\ ThreadOpen
    /\ SocketConnected(sockets, sharedSocket)
    /\ hookOrderId = "B"
    /\ subscribed = {"A", "B"}

\* C24: each mounted hook's connected flag follows the shared transport:
\* true whenever it is connected and the hook has a token (and, for the chat
\* hook, a thread), false whenever it is not connected.
ConnectedFlagIsLevel ==
    \A c \in hooksMounted :
        /\ (HookActive(c, accessToken, hookOrderId)
            /\ SocketConnected(sockets, sharedSocket)) => connected[c]
        /\ ~SocketConnected(sockets, sharedSocket) => ~connected[c]


\* The socket delivers a notifications:new event to the hook.
NewEventArrives == ntEvents # <<>> /\ Head(ntEvents).type = "new" /\ NtDeliver

\* C25: handling a notifications:new event puts the notification at the
\* head of the inbox, the rest following unchanged, when its id is not yet
\* present, and leaves the inbox unchanged when it is.
NewEventPrependsOnce ==
    [][NewEventArrives
          => LET e == Head(ntEvents) IN
             IF HasId(notifications, e.id)
             THEN notifications' = notifications
             ELSE /\ notifications' # <<>>
                  /\ Head(notifications').id = e.id
                  /\ Tail(notifications') = notifications]_vars

\* While the list request is still loading, two events have filled the
\* inbox, the later notification first.
NewEventPrependsOnceWitness ==
    /\ ntLoading
    /\ Len(notifications) = 2
    /\ notifications[1].id > notifications[2].id


\* The listProducts call r is the one the latest run of the category effect
\* made.
MostRecent(r) == catReqs[r].seq = requestSeq /\ catReqs[r].key = selectedCategoryId

\* A response of a listProducts call that is not the most recent one changes
\* neither what is displayed nor the cache.
EarlierResponseDropped ==
    \A r \in DOMAIN catReqs :
        (~MostRecent(r) /\ catReqs' = RemoveAt(catReqs, r))
            => UNCHANGED <<homeProducts, homeError, homeLoading, cache>>

\* What is displayed belongs to the selected category: loading exactly while
\* its request is in flight, and once settled without error the products
\* are the active items that request returned.
ShowsSelectedCategory ==
    /\ homeLoading <=> \E r \in DOMAIN catReqs : MostRecent(r)
    /\ (homeMounted /\ ~homeLoading /\ homeError = NoError)
          => /\ cache[selectedCategoryId] = homeProducts
             /\ \A i \in DOMAIN homeProducts :
                   /\ homeProducts[i].status = "ACTIVE"
                   /\ selectedCategoryId # ALL_CATEGORY_ID
                         => homeProducts[i].category = selectedCategoryId
    /\ \A k \in Categories :
          cache[k] # NotLoaded => \A i \in DOMAIN cache[k] : cache[k][i].category = k

\* C26: in the home catalog only the most recent request's result is
\* applied: products, error and loading are those of the most recently
\* selected category, and a response for an earlier selection is neither
\* displayed nor cached.
OnlyLatestCategoryApplied == []ShowsSelectedCategory /\ [][EarlierResponseDropped]_vars

\* A category was selected while another one's request was in flight: the
\* later request's products are displayed and the earlier response is still
\* to come.
OnlyLatestCategoryAppliedWitness ==
    /\ selectedCategoryId = "c2"
    /\ ~homeLoading
    /\ homeProducts = <<Product("c2", "ACTIVE")>>
    /\ \E r \in DOMAIN catReqs : catReqs[r].key = "c1" /\ ~catReqs[r].alive


\* C28: the message sequence the hook exposes holds only messages of the
\* active thread, also while the history of a newly selected thread is
\* being fetched.
OnlyActiveThreadMessages ==
    \A i \in DOMAIN messages : messages[i].orderId = activeOrderId


\* C29: within one checkout view at most one order is created: once a
\* createOrder call has succeeded no further createOrder request is sent,
\* and none is sent while a submit is in flight.
AtMostOneOrder ==
    [][(orders # <<>> \/ submits # <<>>) => orderCalls' = orderCalls]_vars


\* The catch block reacts as to a single-vendor conflict.
HandledAsConflict == notice' = ConflictMessage(atcReq.surface) /\ surface' = "cart"

\* C30: a failed add is handled as a single-vendor conflict exactly when
\* the response status is 409, whatever the text of the error detail.
ConflictOnlyOnStatus409 ==
    [][(atcReq.phase = "rejected" /\ addCartItemRejected)
          => (HandledAsConflict <=> atcReq.status = 409)]_vars

====
